---- MODULE Spec2Model ----
(***************************************************************************)
(* Workout Volume Planning & Constraint-Validation Engine of fit-ai        *)
(* (src/backend/workout_planner.py) and its HTTP entry point               *)
(* (src/backend/server.py).                                                *)
(*                                                                         *)
(* Number representation.  The code computes in binary floating point; the *)
(* model computes in exact integers of a fixed unit:                       *)
(*   recovery_factor, energy_balance_factor : hundredths  (100 = 1.0)      *)
(*   optimal_sets, target_range.min/.max    : tenths      (45  = 4.5)      *)
(*   activation coefficients, weekly volume : quarters    (4   = 1.0)      *)
(*   weekly_sets of the summary, "%.1f" text: tenths                       *)
(* round(x, 1) is modelled by RoundHalfEven on the exact value.  The two   *)
(* agree except on exact decimal ties whose binary product is inexact; the *)
(* inputs drawn below produce no such tie.                                 *)
(***************************************************************************)
EXTENDS Integers, Sequences, FiniteSets, TLC

(***************************************************************************)
(* Python values                                                           *)
(***************************************************************************)
\* Python's None, as returned by dict.get(key) for a missing key.
NoneValue == "None"

\* dict.get(key, default)
Get(d, key, default) == IF key \in DOMAIN d THEN d[key] ELSE default

\* A parsed JSON value is a dict (a function on strings) or a list.  A list is
\* kept as the one-field record [json_list |-> items], so that the values
\* json.loads may return form one set.
IsDict(v) == "json_list" \notin DOMAIN v

\* faulty variant of Truthy: the test `if not workout_data` is missing
Truthy_always(v) == TRUE

\* Python truthiness of a dict or list: empty is falsy.
Truthy(v) == IF IsDict(v) THEN DOMAIN v # {} ELSE v.json_list # <<>>

\* round-half-to-even of the rational n / d, d > 0 (Python's round and "%.1f"
\* on an exactly represented value).
RoundHalfEven(n, d) ==
  LET q == n \div d
      r == n % d
  IN IF 2 * r > d \/ (2 * r = d /\ q % 2 = 1) THEN q + 1 ELSE q

(***************************************************************************)
(* Exercise Catalog (coefficients in quarters)                             *)
(***************************************************************************)
EXERCISE_DATABASE ==
     "Powerlifting deadlift" :>
       [type |-> "Compound", activation |-> ("Traps" :> 4 @@ "Lats" :> 1 @@ "Erector Spine" :> 4 @@ "Quadriceps" :> 2 @@ "Hamstrings" :> 3 @@ "Glutes" :> 4 @@ "Calves" :> 2 @@ "Abs" :> 1)]
  @@ "Romanian deadlifts" :>
       [type |-> "Compound", activation |-> ("Traps" :> 4 @@ "Lats" :> 1 @@ "Erector Spine" :> 4 @@ "Hamstrings" :> 4 @@ "Glutes" :> 4 @@ "Abs" :> 1)]
  @@ "Goodmornings" :>
       [type |-> "Compound", activation |-> ("Erector Spine" :> 4 @@ "Hamstrings" :> 4 @@ "Glutes" :> 4 @@ "Abs" :> 1)]
  @@ "Hip extensions & pull-throughs" :>
       [type |-> "Compound", activation |-> ("Erector Spine" :> 1 @@ "Hamstrings" :> 4 @@ "Glutes" :> 4)]
  @@ "Back extensions" :>
       [type |-> "Isolation", activation |-> ("Erector Spine" :> 4 @@ "Hamstrings" :> 4 @@ "Glutes" :> 4)]
  @@ "Leg curls" :>
       [type |-> "Isolation", activation |-> ("Hamstrings" :> 4 @@ "Calves" :> 4)]
  @@ "Barbell squats" :>
       [type |-> "Compound", activation |-> ("Erector Spine" :> 4 @@ "Quadriceps" :> 4 @@ "Glutes" :> 4 @@ "Calves" :> 2 @@ "Abs" :> 1)]
  @@ "Leg presses, hack & belt squats" :>
       [type |-> "Compound", activation |-> ("Erector Spine" :> 1 @@ "Quadriceps" :> 4 @@ "Glutes" :> 4 @@ "Calves" :> 2)]
  @@ "Bulgarian split squats" :>
       [type |-> "Compound", activation |-> ("Erector Spine" :> 2 @@ "Quadriceps" :> 4 @@ "Glutes" :> 4 @@ "Calves" :> 2 @@ "Abs" :> 1)]
  @@ "Lunges & step-ups" :>
       [type |-> "Compound", activation |-> ("Erector Spine" :> 2 @@ "Quadriceps" :> 4 @@ "Glutes" :> 4 @@ "Calves" :> 2 @@ "Abs" :> 1)]
  @@ "Leg extensions" :>
       [type |-> "Isolation", activation |-> ("Quadriceps" :> 4)]
  @@ "Hip thrusts & glute kickbacks" :>
       [type |-> "Compound", activation |-> ("Quadriceps" :> 2 @@ "Glutes" :> 4)]
  @@ "Hip abduction" :>
       [type |-> "Isolation", activation |-> ("Glutes" :> 4)]
  @@ "Calf raises/jumps" :>
       [type |-> "Isolation", activation |-> ("Calves" :> 4)]
  @@ "Seated calf raises" :>
       [type |-> "Isolation", activation |-> ("Calves" :> 4)]
  @@ "Chin-ups & pulldowns" :>
       [type |-> "Compound", activation |-> ("Pecs" :> 1 @@ "Delt" :> 4 @@ "Traps" :> 4 @@ "Lats" :> 4 @@ "Biceps" :> 4)]
  @@ "Pull-ups & wide pulldowns" :>
       [type |-> "Compound", activation |-> ("Pecs" :> 2 @@ "Delt" :> 1 @@ "Traps" :> 4 @@ "Lats" :> 4 @@ "Biceps" :> 4)]
  @@ "Cable rows with spinal flexion" :>
       [type |-> "Compound", activation |-> ("Delt" :> 4 @@ "Traps" :> 4 @@ "Lats" :> 4 @@ "Biceps" :> 2 @@ "Triceps" :> 1 @@ "Erector Spine" :> 2 @@ "Hamstrings" :> 1 @@ "Glutes" :> 1)]
  @@ "Pull-overs & lat prayers" :>
       [type |-> "Compound", activation |-> ("Pecs" :> 2 @@ "Delt" :> 4 @@ "Lats" :> 4 @@ "Triceps" :> 4)]
  @@ "High rows & rear delt flys" :>
       [type |-> "Compound", activation |-> ("Delt" :> 4 @@ "Traps" :> 4)]
  @@ "Barbell bench press" :>
       [type |-> "Compound", activation |-> ("Pecs" :> 4 @@ "Delt" :> 4 @@ "Triceps" :> 4)]
  @@ "Dumbbell bench press" :>
       [type |-> "Compound", activation |-> ("Pecs" :> 4 @@ "Delt" :> 4 @@ "Triceps" :> 2)]
  @@ "Chest flys" :>
       [type |-> "Isolation", activation |-> ("Pecs" :> 4 @@ "Delt" :> 4)]
  @@ "Barbell overhead press" :>
       [type |-> "Compound", activation |-> ("Pecs" :> 1 @@ "Delt" :> 4 @@ "Traps" :> 1 @@ "Triceps" :> 4 @@ "Abs" :> 1)]
  @@ "Dumbbell overhead press" :>
       [type |-> "Compound", activation |-> ("Pecs" :> 1 @@ "Delt" :> 4 @@ "Traps" :> 1 @@ "Triceps" :> 2 @@ "Abs" :> 1)]
  @@ "Lateral raises" :>
       [type |-> "Isolation", activation |-> ("Pecs" :> 1 @@ "Delt" :> 4 @@ "Traps" :> 1)]
  @@ "Shrugs" :>
       [type |-> "Isolation", activation |-> ("Traps" :> 4)]
  @@ "Triceps extensions" :>
       [type |-> "Isolation", activation |-> ("Triceps" :> 4)]
  @@ "Biceps curls" :>
       [type |-> "Isolation", activation |-> ("Biceps" :> 4)]
  @@ "Ab crunches" :>
       [type |-> "Isolation", activation |-> ("Abs" :> 4)]

\* faulty variant of MUSCLE_GROUPS: "Abs" is missing, while the catalog still
\* names it in activation maps
MUSCLE_GROUPS_without_abs ==
  <<"Pecs", "Delt", "Traps", "Lats", "Biceps", "Triceps", "Erector Spine",
    "Quadriceps", "Hamstrings", "Glutes", "Calves">>

MUSCLE_GROUPS ==
  <<"Pecs", "Delt", "Traps", "Lats", "Biceps", "Triceps", "Erector Spine",
    "Quadriceps", "Hamstrings", "Glutes", "Calves", "Abs">>

\* the keys of the weekly_volumes dict built from MUSCLE_GROUPS
MuscleSet == {MUSCLE_GROUPS[i] : i \in 1..Len(MUSCLE_GROUPS)}

(***************************************************************************)
(* Input model: WorkoutPlannerInput and its pydantic Field constraints     *)
(***************************************************************************)
\* The constraints pydantic enforces when the request body is parsed.  The
\* field energy_balance_factor is declared without any bound.
WorkoutPlannerInputValid(input_data) ==
  /\ input_data.training_status \in {1, 2, 3}
  /\ input_data.sex \in {0, 1}
  /\ input_data.recovery_factor >= 50 /\ input_data.recovery_factor <= 120
  /\ input_data.age >= 10 /\ input_data.age <= 100
  /\ input_data.training_frequency >= 1 /\ input_data.training_frequency <= 7
  /\ input_data.dedication_level \in {"A", "B", "C"}

(***************************************************************************)
(* Volume Target Calculator                                                *)
(***************************************************************************)
\* faulty variant of SqrtMicro: the roots of 2 and 3 are exchanged
SqrtMicro_exchanged(training_status) ==
  CASE training_status = 1 -> 1000000
    [] training_status = 2 -> 1732051
    [] training_status = 3 -> 1414214

\* math.sqrt(training_status), in millionths
SqrtMicro(training_status) ==
  CASE training_status = 1 -> 1000000
    [] training_status = 2 -> 1414214
    [] training_status = 3 -> 1732051

\* optimal_sets in tenths.  With f2 = 2 * freq, a = 250 * age factor:
\*   optimal_sets * 10 = f2 * 5 * rf * ebf * a * sqrt / 500000 + 30 * sex.
\* The product B * SqrtMicro is formed in base-1000 limbs to stay in 32 bits.
calculate_optimal_sets(input_data) ==
  LET f2    == IF input_data.training_frequency < 3
               THEN 2 * input_data.training_frequency ELSE 5
      older == IF input_data.age - 50 > 0 THEN input_data.age - 50 ELSE 0
      B     == f2 * 5 * input_data.recovery_factor
                 * input_data.energy_balance_factor * (250 - 3 * older)
      S     == SqrtMicro(input_data.training_status)
      b1    == B \div 1000
      b0    == B % 1000
      s1    == S \div 1000
      s0    == S % 1000
      lo    == b0 * s0
      mid   == b1 * s0 + b0 * s1 + (lo \div 1000)
      hi    == b1 * s1 + (mid \div 1000)
      frac  == (mid % 1000) * 1000 + (lo % 1000)
      q     == hi \div 500000
      r     == hi % 500000
      up    == \/ r > 250000
               \/ (r = 250000 /\ frac > 0)
               \/ (r = 250000 /\ frac = 0 /\ q % 2 = 1)
  IN (IF up THEN q + 1 ELSE q) + 30 * input_data.sex

\* (min_pct, max_pct) per dedication level, in percent
DedicationRanges ==
  [A |-> <<60, 75>>, B |-> <<75, 90>>, C |-> <<90, 100>>]

\* optimal_sets * 0.75 and optimal_sets * 0.90 can fall on a decimal tie
\* (x.x5), which no double holds: the double product lies just above or just
\* below it and round(., 1) follows.  These are the optimal_sets values (in
\* tenths, 0.0 to 60.0) whose product lies above the tie; 0.60 and 1.00 never
\* give a tie.
ProductAboveTie ==
  60 :> {}
  @@ 75 :>
    {2, 10, 18, 22, 26, 42, 50, 54, 62, 74, 90, 94, 98, 114, 118, 130, 134,
     138, 154, 158, 166, 170, 178, 186, 198, 206, 210, 218, 226, 238, 246,
     250, 258, 266, 278, 286, 290, 298, 306, 318, 322, 326, 330, 342, 346,
     362, 366, 370, 382, 386, 402, 406, 410, 422, 426, 442, 446, 450, 462,
     466, 482, 486, 490, 502, 506, 522, 526, 530, 542, 546, 562, 566, 570,
     582, 586}
  @@ 90 :>
    {5, 15, 55, 65, 75, 85, 95, 105, 135, 145, 155, 175, 185, 195, 215,
     235, 245, 265, 275, 285, 295, 315, 335, 345, 365, 375, 395, 405, 415,
     445, 455, 465, 475, 495, 505, 515, 545, 555, 565, 575, 595}
  @@ 100 :> {}

\* round(optimal_sets * pct, 1), optimal_sets in tenths and pct in percent
RoundProduct(optimal_sets, pct) ==
  LET n == optimal_sets * pct
      q == n \div 100
      r == n % 100
  IN IF r > 50 \/ (r = 50 /\ optimal_sets \in ProductAboveTie[pct])
     THEN q + 1 ELSE q

get_target_volume_range(optimal_sets, dedication_level) ==
  LET pct == DedicationRanges[dedication_level]
  IN [min |-> RoundProduct(optimal_sets, pct[1]),
      max |-> RoundProduct(optimal_sets, pct[2])]

(***************************************************************************)
(* Plan Volume Accountant                                                  *)
(***************************************************************************)
\* faulty variant of AddExercise: `=` in place of `+=`, so the last exercise
\* that activates a muscle decides its volume
AddExercise_assigns(weekly_volumes, exercise, frequency) ==
  LET exercise_name == Get(exercise, "exercise_name", NoneValue)
      sets          == Get(exercise, "sets", 0)
  IN IF exercise_name \in DOMAIN EXERCISE_DATABASE
     THEN LET activation == EXERCISE_DATABASE[exercise_name].activation
          IN [muscle \in DOMAIN weekly_volumes |->
                IF muscle \in DOMAIN activation
                THEN sets * activation[muscle] * frequency
                ELSE weekly_volumes[muscle]]
     ELSE weekly_volumes

\* weekly_volumes[muscle] += sets * activation_value * frequency, for every
\* (muscle, activation_value) of a catalogued exercise.  Volumes in quarters.
AddExercise(weekly_volumes, exercise, frequency) ==
  LET exercise_name == Get(exercise, "exercise_name", NoneValue)
      sets          == Get(exercise, "sets", 0)
  IN IF exercise_name \in DOMAIN EXERCISE_DATABASE
     THEN LET activation == EXERCISE_DATABASE[exercise_name].activation
          IN [muscle \in DOMAIN weekly_volumes |->
                IF muscle \in DOMAIN activation
                THEN weekly_volumes[muscle] + sets * activation[muscle] * frequency
                ELSE weekly_volumes[muscle]]
     ELSE weekly_volumes

RECURSIVE AddExercises(_, _, _)
AddExercises(weekly_volumes, exercises, frequency) ==
  IF exercises = <<>> THEN weekly_volumes
  ELSE AddExercises(AddExercise(weekly_volumes, Head(exercises), frequency),
                    Tail(exercises), frequency)

\* faulty variant of the day loop: a day without frequency_per_week counts
\* for nothing (default 0, as in the frequency check)
RECURSIVE AddDays_frequency_default_0(_, _)
AddDays_frequency_default_0(weekly_volumes, workout_days) ==
  IF workout_days = <<>> THEN weekly_volumes
  ELSE LET workout_day == Head(workout_days)
           frequency   == Get(workout_day, "frequency_per_week", 0)
       IN AddDays_frequency_default_0(
            AddExercises(weekly_volumes,
                         Get(workout_day, "exercises", <<>>), frequency),
            Tail(workout_days))

RECURSIVE AddDays(_, _)
AddDays(weekly_volumes, workout_days) ==
  IF workout_days = <<>> THEN weekly_volumes
  ELSE LET workout_day == Head(workout_days)
           frequency   == Get(workout_day, "frequency_per_week", 1)
       IN AddDays(AddExercises(weekly_volumes,
                               Get(workout_day, "exercises", <<>>), frequency),
                  Tail(workout_days))

\* the loop of validate_and_calculate_volumes (validate_volume_targets has its
\* own copy of it, ValidatorVolumes)
WeeklyVolumes(workout_data) ==
  AddDays([muscle \in MuscleSet |-> 0], Get(workout_data, "workout_days", <<>>))

\* volume in quarters -> one decimal, in tenths (round(volume, 1), f"{volume:.1f}")
Round1(volume) == RoundHalfEven(volume * 10, 4)

\* the WeeklyVolumeSummary list, in MUSCLE_GROUPS order
validate_and_calculate_volumes(workout_data) ==
  LET weekly_volumes == WeeklyVolumes(workout_data)
  IN [i \in 1..Len(MUSCLE_GROUPS) |->
        [muscle_group |-> MUSCLE_GROUPS[i],
         weekly_sets  |-> Round1(weekly_volumes[MUSCLE_GROUPS[i]])]]

(***************************************************************************)
(* Plan Validator                                                          *)
(***************************************************************************)
\* The validator's own volume loop (the copy of the accountant's loop at the
\* head of validate_volume_targets):
\*   if exercise_name in EXERCISE_DATABASE: ... weekly_volumes[muscle] += ...
ValidatorAddExercise(weekly_volumes, exercise, frequency) ==
  LET exercise_name == Get(exercise, "exercise_name", NoneValue)
      sets          == Get(exercise, "sets", 0)
  IN IF exercise_name \in DOMAIN EXERCISE_DATABASE
     THEN LET activation == EXERCISE_DATABASE[exercise_name].activation
          IN [muscle \in DOMAIN weekly_volumes |->
                IF muscle \in DOMAIN activation
                THEN weekly_volumes[muscle] + sets * activation[muscle] * frequency
                ELSE weekly_volumes[muscle]]
     ELSE weekly_volumes

\* for exercise in workout_day.get("exercises", [])
RECURSIVE ValidatorAddExercises(_, _, _)
ValidatorAddExercises(weekly_volumes, exercises, frequency) ==
  IF exercises = <<>> THEN weekly_volumes
  ELSE ValidatorAddExercises(
         ValidatorAddExercise(weekly_volumes, Head(exercises), frequency),
         Tail(exercises), frequency)

\* faulty variant of the validator's day loop: a day without
\* frequency_per_week counts for nothing (default 0, as in the frequency
\* check), while the accountant counts it once
RECURSIVE ValidatorAddDays_frequency_default_0(_, _)
ValidatorAddDays_frequency_default_0(weekly_volumes, workout_days) ==
  IF workout_days = <<>> THEN weekly_volumes
  ELSE LET workout_day == Head(workout_days)
           frequency   == Get(workout_day, "frequency_per_week", 0)
       IN ValidatorAddDays_frequency_default_0(
            ValidatorAddExercises(weekly_volumes,
                                  Get(workout_day, "exercises", <<>>),
                                  frequency),
            Tail(workout_days))

\* for workout_day in workout_data.get("workout_days", []):
\*     frequency = workout_day.get("frequency_per_week", 1)
RECURSIVE ValidatorAddDays(_, _)
ValidatorAddDays(weekly_volumes, workout_days) ==
  IF workout_days = <<>> THEN weekly_volumes
  ELSE LET workout_day == Head(workout_days)
           frequency   == Get(workout_day, "frequency_per_week", 1)
       IN ValidatorAddDays(
            ValidatorAddExercises(weekly_volumes,
                                  Get(workout_day, "exercises", <<>>),
                                  frequency),
            Tail(workout_days))

\* weekly_volumes of validate_volume_targets, in quarter sets
ValidatorVolumes(workout_data) ==
  ValidatorAddDays([muscle \in MuscleSet |-> 0],
                   Get(workout_data, "workout_days", <<>>))

\* tolerance = 0.30, in percent
tolerance == 30

\* volume (quarters) < target_range['min'] * (1 - tolerance), target in tenths:
\*   volume / 4 < min / 10 * (100 - tolerance) / 100
BelowTolerance(volume, target_range) ==
  volume * 1000 < target_range.min * (100 - tolerance) * 4

\* volume (quarters) > target_range['max'] * (1 + tolerance)
AboveTolerance(volume, target_range) ==
  volume * 1000 > target_range.max * (100 + tolerance) * 4

\* faulty variant of OutsideTarget: the target edges count as outside
OutsideTarget_edges_exclusive(volume, target_range) ==
  volume * 10 <= target_range.min * 4 \/ volume * 10 >= target_range.max * 4

\* volume < target_range['min'] or volume > target_range['max']
OutsideTarget(volume, target_range) ==
  volume * 10 < target_range.min * 4 \/ volume * 10 > target_range.max * 4

\* the classification without the tolerance band: anything outside the target
\* range counts as way off
Classify_without_tolerance(volume, target_range) ==
  IF volume * 10 < target_range.min * 4 THEN "way_too_low"
  ELSE IF volume * 10 > target_range.max * 4 THEN "way_too_high"
  ELSE "within"

\* the classification of one muscle by the if / elif / elif chain
Classify(volume, target_range) ==
  IF BelowTolerance(volume, target_range) THEN "way_too_low"
  ELSE IF AboveTolerance(volume, target_range) THEN "way_too_high"
  ELSE IF OutsideTarget(volume, target_range) THEN "slightly_off"
  ELSE "within"

\* the exercises each suggestion string names, in the order it names them
exercise_suggestions ==
  [Quadriceps |-> <<"Leg extensions", "Barbell squats", "Leg presses">>,
   Hamstrings |-> <<"Leg curls", "Romanian deadlifts">>,
   Glutes     |-> <<"Hip thrusts", "Barbell squats", "Romanian deadlifts">>,
   Calves     |-> <<"Calf raises", "Seated calf raises">>,
   Abs        |-> <<"Ab crunches">>,
   Biceps     |-> <<"Biceps curls">>,
   Triceps    |-> <<"Triceps extensions">>,
   Pecs       |-> <<"Barbell bench press", "Dumbbell bench press", "Chest flys">>,
   Delt       |-> <<"Barbell overhead press", "Lateral raises">>,
   Traps      |-> <<"Shrugs", "Romanian deadlifts">>,
   Lats       |-> <<"Pull-ups", "Chin-ups">>]
  @@ ("Erector Spine" :> <<"Romanian deadlifts", "Barbell squats">>)

\* the entries of MUSCLE_GROUPS (in order) whose class is cls
RECURSIVE MusclesOfClass(_, _, _, _)
MusclesOfClass(weekly_volumes, target_range, cls, i) ==
  IF i > Len(MUSCLE_GROUPS) THEN <<>>
  ELSE LET muscle == MUSCLE_GROUPS[i]
           rest   == MusclesOfClass(weekly_volumes, target_range, cls, i + 1)
       IN IF Classify(weekly_volumes[muscle], target_range) = cls
          THEN <<muscle>> \o rest ELSE rest

\* "{muscle}: {volume:.1f} sets (needs {deficit:.1f} more sets)"
\* deficit = target_range['min'] - volume, in twentieths before formatting
LowLine(muscle, volume, target_range) ==
  [muscle |-> muscle, sets |-> Round1(volume),
   needs |-> RoundHalfEven(2 * target_range.min - 5 * volume, 2)]

\* "{muscle}: {volume:.1f} sets ({excess:.1f} sets too many)"
HighLine(muscle, volume, target_range) ==
  [muscle |-> muscle, sets |-> Round1(volume),
   too_many |-> RoundHalfEven(5 * volume - 2 * target_range.max, 2)]

\* "{muscle}: {volume:.1f} sets (target: {min:.1f}-{max:.1f})"
OffLine(muscle, volume, target_range) ==
  [muscle |-> muscle, sets |-> Round1(volume), target |-> target_range]

\* (is_valid, feedback); the feedback string is kept as its sections
validate_volume_targets(workout_data, target_range) ==
  LET weekly_volumes == ValidatorVolumes(workout_data)
      low  == MusclesOfClass(weekly_volumes, target_range, "way_too_low", 1)
      high == MusclesOfClass(weekly_volumes, target_range, "way_too_high", 1)
      off  == MusclesOfClass(weekly_volumes, target_range, "slightly_off", 1)
      way_too_low  == [i \in 1..Len(low) |->
                         LowLine(low[i], weekly_volumes[low[i]], target_range)]
      way_too_high == [i \in 1..Len(high) |->
                         HighLine(high[i], weekly_volumes[high[i]], target_range)]
      slightly_off == [i \in 1..Len(off) |->
                         OffLine(off[i], weekly_volumes[off[i]], target_range)]
  IN IF way_too_low # <<>> \/ way_too_high # <<>>
     THEN <<FALSE,
            [text         |-> "VOLUME VALIDATION FAILED",
             target       |-> target_range,
             way_too_low  |-> way_too_low,
             fixes        |-> [i \in 1..Len(low) |->
                                 [muscle |-> low[i],
                                  add    |-> exercise_suggestions[low[i]]]],
             way_too_high |-> way_too_high,
             slightly_off |-> slightly_off]>>
     ELSE IF slightly_off # <<>>
     THEN <<TRUE, [text |-> "Plan acceptable", slightly_off |-> slightly_off]>>
     ELSE <<TRUE, [text |-> "All muscle groups within target range"]>>

(***************************************************************************)
(* The external generator: the responses it may give                       *)
(***************************************************************************)
\* the largest frequency_per_week the generator writes on a day
MaxFrequency == 3

Exercise(name, sets) ==
  [exercise_name |-> name, sets |-> sets, intensity |-> 60,
   muscle_activation |-> EXERCISE_DATABASE[name].activation]

LegExercises(sets) ==
  <<Exercise("Leg curls", sets), Exercise("Barbell squats", sets)>>

UpperExercises(sets) ==
  <<Exercise("Pull-ups & wide pulldowns", sets),
    Exercise("Barbell bench press", sets), Exercise("Ab crunches", sets)>>

\* one full-body day: every muscle gets between 1 and 1.5 times sets * frequency
OneDayPlan(sets, frequency) ==
  [workout_days |->
     <<[day_name |-> "Day A", frequency_per_week |-> frequency,
        exercises |-> LegExercises(sets) \o UpperExercises(sets)]>>]

\* the same exercises on two days that both omit frequency_per_week
SplitPlanNoFrequency(sets) ==
  [workout_days |->
     <<[day_name |-> "Day A", exercises |-> LegExercises(sets)],
       [day_name |-> "Day B", exercises |-> UpperExercises(sets)]>>]

\* a full-body day with an exercise that is not in the catalog, an exercise
\* without sets and intensity, activation maps the generator made up (one
\* of them for a catalogued exercise), and an exercise that appears twice,
\* the second time with 0 sets;
\* followed by a day whose only exercise is unknown and that has no day_name
UntrustedPlan(sets) ==
  [workout_days |->
     <<[day_name |-> "Day A", frequency_per_week |-> 1,
        exercises |->
          <<[exercise_name |-> "Burpees", sets |-> 3, intensity |-> 70,
             muscle_activation |-> ("Quadriceps" :> 4)]>>
          \o LegExercises(sets)
          \o <<[exercise_name |-> "Biceps curls"]>>
          \o UpperExercises(sets)
          \o <<[exercise_name |-> "Ab crunches", sets |-> 0,
                intensity |-> 75,
                muscle_activation |-> ("Pecs" :> 4)]>>],
       [frequency_per_week |-> 1,
        exercises |-> <<[exercise_name |-> "Pull-ups", sets |-> 5,
                         intensity |-> 80]>>]>>]

\* the plans the generator answers with: the full-body day of 4 sets at every
\* frequency, one of 2 sets (too little volume), and the two irregular plans
Plans ==
  {OneDayPlan(4, f) : f \in 1..MaxFrequency}
    \cup {OneDayPlan(2, 1), SplitPlanNoFrequency(4), UntrustedPlan(4)}

\* what json.loads may return: a plan, the empty object {} or the array [1]
EmptyObject == <<>>
JSONArray == [json_list |-> <<1>>]
JSONValues == Plans \cup {EmptyObject, JSONArray}

(***************************************************************************)
(* The requests the endpoint may receive                                   *)
(***************************************************************************)
Input(ts, sex, rf, ebf, age, tf, level) ==
  [training_status |-> ts, sex |-> sex, recovery_factor |-> rf,
   energy_balance_factor |-> ebf, age |-> age, training_frequency |-> tf,
   dedication_level |-> level]

\* two inputs inside every declared range: optimal_sets 5.0, target 4.5 - 5.0
ValidInputs ==
  {Input(1, 0, 50, 100, 30, 2, "C"), Input(1, 0, 100, 100, 30, 1, "C")}

\* the first of them with one field moved outside the range the data model states
OutOfRangeInputs ==
  {Input(4, 0, 50, 100, 30, 2, "C"), Input(1, 2, 50, 100, 30, 2, "C"),
   Input(1, 0, 49, 100, 30, 2, "C"), Input(1, 0, 121, 100, 30, 2, "C"),
   Input(1, 0, 50, 0, 30, 2, "C"), Input(1, 0, 50, -100, 30, 2, "C"),
   Input(1, 0, 50, 100, 9, 2, "C"), Input(1, 0, 50, 100, 101, 2, "C"),
   Input(1, 0, 50, 100, 30, 0, "C"), Input(1, 0, 50, 100, 30, 8, "C"),
   Input(1, 0, 50, 100, 30, 2, "D")}

Inputs == ValidInputs \cup OutOfRangeInputs

(***************************************************************************)
(* Plan Generation Loop, Sanitizer and the endpoint                        *)
(***************************************************************************)
VARIABLES
  pc,               \* "idle", "converse" (a generator call is pending), "done"
  input_data,       \* the request body
  optimal_sets,     \* local of generate_workout_plan
  target_range,     \* local of generate_workout_plan
  base_prompt,      \* local of generate_workout_plan: the text, as its segments
  attempt,          \* loop variable of generate_workout_plan (0-based)
  prompt,           \* parameter of call_bedrock_for_workout, as its segments
  bedrock_attempt,  \* loop variable of call_bedrock_for_workout (0-based)
  workout_data,     \* the last value call_bedrock_for_workout returned
  feedback,         \* the feedback of the last run of validate_volume_targets
  outcome,          \* "None", "ValidationError", "Accepted",
                    \* "AcceptedWithWarning", "Failed"
  error,            \* the exception that ended the request, "None" if none
  result,           \* the WorkoutPlanOutput returned
  converse_calls,   \* number of bedrock_client.converse calls made by the
                    \* attempt in progress (the last one, once done)
  response,         \* what the last converse call did: "None" (no call yet),
                    \* "json", "invalid_json", "ClientError", "Exception"
  responses,        \* every answer the generator gave this request, in order
                    \* (kept by the specifications that compare runs)
  suspended,        \* the locals of the other request, when two requests run
                    \* on the shared WorkoutPlanner instance
  workout_plans,    \* the documents of the workout_plans collection, in
                    \* file order
  created           \* per user, the id of the plan the last
                    \* POST /api/workout-plan of that user returned

vars ==
  <<pc, input_data, optimal_sets, target_range, base_prompt, attempt, prompt,
    bedrock_attempt, workout_data, feedback, outcome, error, result,
    converse_calls, response, responses, suspended, workout_plans, created>>

\* what generate_workout_plan and its callees never touch
Outside == <<responses, suspended, workout_plans, created>>

OutsideInit ==
  /\ responses = <<>>
  /\ suspended = <<>>
  /\ workout_plans = <<>>
  /\ created = <<>>

\* faulty variant of max_attempts: one attempt more than the budget
max_attempts_plus_one == 5 + 1

max_attempts == 5

max_retries == 3

\* generate_workout_prompt: the text embeds the profile, the targets and the
\* catalog; kept as one segment
BasePrompt(inp, optimal, target) ==
  [kind |-> "base", training_frequency |-> inp.training_frequency,
   optimal_sets |-> optimal, target_range |-> target]

\* "ATTEMPT {attempt + 1} - Your previous plan was REJECTED."
Banner(n) == [kind |-> "banner", attempt |-> n]

\* "IMPORTANT: Your previous response was not valid JSON. ..."
JSONDirective == [kind |-> "json_directive"]

\* "FREQUENCY ERROR: Your plan has {total_frequency} total days/week ..."
FrequencyMessage(total_frequency, training_frequency) ==
  [kind |-> "frequency", total |-> total_frequency, max |-> training_frequency]

VolumeMessage(fb) == [kind |-> "volume", feedback |-> fb]

\* current_prompt of attempt a, built from base_prompt b
CurrentPrompt(b, a) == IF a > 0 THEN Append(b, Banner(a + 1)) ELSE b

RECURSIVE SumFrequency(_, _)
SumFrequency(workout_days, default) ==
  IF workout_days = <<>> THEN 0
  ELSE Get(Head(workout_days), "frequency_per_week", default)
         + SumFrequency(Tail(workout_days), default)

\* total_frequency = sum(day.get("frequency_per_week", 0) for day in ...)
TotalFrequency(data) == SumFrequency(Get(data, "workout_days", <<>>), 0)

(***************************************************************************)
(* Plan Sanitizer                                                          *)
(***************************************************************************)
\* faulty variant of the sanitizer loop: an exercise that is not in the catalog
\* is kept, with an empty activation map
SanitizeExercises_keeps_unknown(exercises) ==
  [i \in 1..Len(exercises) |->
     LET exercise_name == Get(exercises[i], "exercise_name", NoneValue)
     IN [exercise_name     |-> exercise_name,
         sets              |-> Get(exercises[i], "sets", 0),
         intensity         |-> Get(exercises[i], "intensity", 60),
         muscle_activation |->
           IF exercise_name \in DOMAIN EXERCISE_DATABASE
           THEN EXERCISE_DATABASE[exercise_name].activation ELSE <<>>]]

RECURSIVE SanitizeExercises(_)
SanitizeExercises(exercises) ==
  IF exercises = <<>> THEN <<>>
  ELSE LET ex_data       == Head(exercises)
           exercise_name == Get(ex_data, "exercise_name", NoneValue)
       IN IF exercise_name \in DOMAIN EXERCISE_DATABASE
          THEN <<[exercise_name     |-> exercise_name,
                  sets              |-> Get(ex_data, "sets", 0),
                  intensity         |-> Get(ex_data, "intensity", 60),
                  muscle_activation |->
                    EXERCISE_DATABASE[exercise_name].activation]>>
                 \o SanitizeExercises(Tail(exercises))
          ELSE SanitizeExercises(Tail(exercises))

\* faulty variant of the sanitizer: a day left without exercises is dropped
SanitizeDays_drops_empty_days(data) ==
  LET days == Get(data, "workout_days", <<>>)
      all  == [i \in 1..Len(days) |->
                 [day_name           |-> Get(days[i], "day_name", "Workout Day"),
                  frequency_per_week |-> Get(days[i], "frequency_per_week", 1),
                  exercises          |->
                    SanitizeExercises(Get(days[i], "exercises", <<>>))]]
  IN SelectSeq(all, LAMBDA day : day.exercises # <<>>)

\* faulty variant of the sanitizer: a day that omits frequency_per_week gets
\* the default of the frequency check (0), not the accountant's (1)
SanitizeDays_frequency_default_0(data) ==
  LET days == Get(data, "workout_days", <<>>)
  IN [i \in 1..Len(days) |->
        [day_name           |-> Get(days[i], "day_name", "Workout Day"),
         frequency_per_week |-> Get(days[i], "frequency_per_week", 0),
         exercises          |->
           SanitizeExercises(Get(days[i], "exercises", <<>>))]]

SanitizeDays(data) ==
  LET days == Get(data, "workout_days", <<>>)
  IN [i \in 1..Len(days) |->
        [day_name           |-> Get(days[i], "day_name", "Workout Day"),
         frequency_per_week |-> Get(days[i], "frequency_per_week", 1),
         exercises          |->
           SanitizeExercises(Get(days[i], "exercises", <<>>))]]

\* faulty variant of WorkoutPlanOutput: the range returned is the tolerance
\* band the validator accepted within, not the target range
WorkoutPlanOutput_tolerance_band(data, optimal, target) ==
  [estimated_optimal_sets |-> optimal,
   target_volume_range    |->
     [min |-> RoundHalfEven(target.min * (100 - tolerance), 100),
      max |-> RoundHalfEven(target.max * (100 + tolerance), 100)],
   workout_days           |-> SanitizeDays(data),
   weekly_volume_summary  |-> validate_and_calculate_volumes(data)]

\* the WorkoutPlanOutput built after the loop
WorkoutPlanOutput(data, optimal, target) ==
  [estimated_optimal_sets |-> optimal,
   target_volume_range    |-> target,
   workout_days           |-> SanitizeDays(data),
   weekly_volume_summary  |-> validate_and_calculate_volumes(data)]

(***************************************************************************)
(* State machine                                                           *)
(***************************************************************************)
Init ==
  /\ pc = "idle"
  /\ input_data = <<>>
  /\ optimal_sets = 0
  /\ target_range = [min |-> 0, max |-> 0]
  /\ base_prompt = <<>>
  /\ attempt = 0
  /\ prompt = <<>>
  /\ bedrock_attempt = 0
  /\ workout_data = <<>>
  /\ feedback = <<>>
  /\ outcome = "None"
  /\ error = "None"
  /\ result = <<>>
  /\ converse_calls = 0
  /\ response = "None"
  /\ OutsideInit

\* POST /generate-workout-plan.  pydantic validates the body before the handler
\* runs (a 422 answer); the handler then runs generate_workout_plan up to its
\* first generator call.
ReceiveRequest(inp) ==
  /\ pc = "idle"
  /\ input_data' = inp
  /\ IF ~WorkoutPlannerInputValid(inp)
     THEN /\ pc' = "done"
          /\ outcome' = "ValidationError"
          /\ UNCHANGED <<optimal_sets, target_range, base_prompt, prompt>>
     ELSE LET optimal == calculate_optimal_sets(inp)
              target  == get_target_volume_range(optimal, inp.dedication_level)
          IN /\ optimal_sets' = optimal
             /\ target_range' = target
             /\ base_prompt' = <<BasePrompt(inp, optimal, target)>>
             /\ prompt' = CurrentPrompt(base_prompt', 0)
             /\ pc' = "converse"
             /\ outcome' = outcome
  /\ UNCHANGED <<attempt, bedrock_attempt, workout_data, feedback, error,
                 result, converse_calls, response>>

\* an exception leaves generate_workout_plan: the endpoint answers 500
Raise(e) ==
  /\ pc' = "done"
  /\ converse_calls' = converse_calls + 1
  /\ outcome' = "Failed"
  /\ error' = e
  /\ UNCHANGED <<input_data, optimal_sets, target_range, base_prompt, attempt,
                 prompt, bedrock_attempt, result>>

\* faulty variant of Retry: the new remediation replaces the previous one
\* and only the base instructions are kept
Retry_latest_only(msg) ==
  /\ base_prompt' = <<base_prompt[1], msg>>
  /\ attempt' = attempt + 1
  /\ prompt' = CurrentPrompt(base_prompt', attempt')
  /\ bedrock_attempt' = 0
  /\ converse_calls' = 0
  /\ UNCHANGED <<pc, input_data, optimal_sets, target_range, outcome, error,
                 result>>

\* `continue` of the outer loop after appending msg to base_prompt; the next
\* iteration runs up to its generator call
Retry(msg) ==
  /\ base_prompt' = Append(base_prompt, msg)
  /\ attempt' = attempt + 1
  /\ prompt' = CurrentPrompt(base_prompt', attempt')
  /\ bedrock_attempt' = 0
  /\ converse_calls' = 0
  /\ UNCHANGED <<pc, input_data, optimal_sets, target_range, outcome, error,
                 result>>

\* `break`, then the sanitizer and the return
Return(state) ==
  /\ pc' = "done"
  /\ converse_calls' = converse_calls + 1
  /\ outcome' = state
  /\ result' = WorkoutPlanOutput(workout_data', optimal_sets, target_range)
  /\ UNCHANGED <<input_data, optimal_sets, target_range, base_prompt, attempt,
                 prompt, bedrock_attempt, error>>

\* faulty variant of AttemptsRemain: the last attempt is given up one early
AttemptsRemain_one_short(a) == a < max_attempts - 2

\* attempt < max_attempts - 1.  `continue` is only reached under this test, so
\* the bound of `for attempt in range(max_attempts)` is never the one that ends
\* the loop.
AttemptsRemain(a) == a < max_attempts - 1

\* total_frequency > input_data.training_frequency
FrequencyExceeded(data, inp) == TotalFrequency(data) > inp.training_frequency

\* the branch taken when the frequency check fails
OnFrequencyExceeded(total_frequency) ==
  IF AttemptsRemain(attempt)
  THEN Retry(FrequencyMessage(total_frequency, input_data.training_frequency))
  ELSE Raise("Generated plan exceeds maximum training frequency")

\* faulty variant of OnVolumeRejected: the last volume rejection is raised,
\* as the last frequency rejection is
OnVolumeRejected_raises(fb) ==
  IF AttemptsRemain(attempt)
  THEN Retry(VolumeMessage(fb))
  ELSE Raise("Generated plan misses the volume targets")

\* faulty variant of OnVolumeRejected: the plan rejected on the last attempt
\* leaves the loop as if it had been accepted
OnVolumeRejected_accepts(fb) ==
  IF AttemptsRemain(attempt)
  THEN Retry(VolumeMessage(fb))
  ELSE Return("Accepted")

\* the branch taken when validate_volume_targets returns is_valid = False
OnVolumeRejected(fb) ==
  IF AttemptsRemain(attempt)
  THEN Retry(VolumeMessage(fb))
  ELSE Return("AcceptedWithWarning")

\* faulty variant of AfterValidation: a plan with slightly-off muscles is
\* treated as rejected
AfterValidation_strict(is_valid, fb) ==
  IF ~is_valid \/ fb.text # "All muscle groups within target range"
  THEN OnVolumeRejected(fb)
  ELSE Return("Accepted")

\* `if not is_valid: ...` and the `break` of a valid plan
AfterValidation(is_valid, fb) ==
  IF ~is_valid THEN OnVolumeRejected(fb) ELSE Return("Accepted")

\* faulty variant of ConverseReturnsJSON: the volume validator runs before the
\* frequency check
ConverseReturnsJSON_volume_first(value) ==
  /\ pc = "converse"
  /\ response' = "json"
  /\ workout_data' = value
  /\ IF ~Truthy(value)
     THEN Raise("Failed to generate workout plan") /\ UNCHANGED feedback
     ELSE IF ~IsDict(value)
     THEN Raise("AttributeError") /\ UNCHANGED feedback
     ELSE LET verdict == validate_volume_targets(value, target_range)
          IN /\ feedback' = verdict[2]
             /\ IF ~verdict[1] THEN OnVolumeRejected(verdict[2])
                ELSE IF FrequencyExceeded(value, input_data)
                THEN OnFrequencyExceeded(TotalFrequency(value))
                ELSE Return("Accepted")

\* converse answers with text that json.loads parses to `value`;
\* call_bedrock_for_workout returns it and the loop body runs to its end
ConverseReturnsJSON(value) ==
  /\ pc = "converse"
  /\ response' = "json"
  /\ workout_data' = value
  /\ IF ~Truthy(value)
     THEN Raise("Failed to generate workout plan") /\ UNCHANGED feedback
     ELSE IF ~IsDict(value)
     THEN Raise("AttributeError") /\ UNCHANGED feedback
     ELSE IF FrequencyExceeded(value, input_data)
     THEN OnFrequencyExceeded(TotalFrequency(value)) /\ UNCHANGED feedback
     ELSE LET verdict == validate_volume_targets(value, target_range)
          IN /\ feedback' = verdict[2]
             /\ AfterValidation(verdict[1], verdict[2])

\* faulty variant of RetriesRemain: one retry too many
RetriesRemain_one_more(a) == a < max_retries

\* bedrock_attempt < max_retries - 1
RetriesRemain(a) == a < max_retries - 1

\* converse answers with text that is not JSON (json.JSONDecodeError)
ConverseReturnsInvalidJSON ==
  /\ pc = "converse"
  /\ response' = "invalid_json"
  /\ IF RetriesRemain(bedrock_attempt)
     THEN /\ prompt' = Append(prompt, JSONDirective)
          /\ bedrock_attempt' = bedrock_attempt + 1
          /\ converse_calls' = converse_calls + 1
          /\ UNCHANGED <<pc, input_data, optimal_sets, target_range,
                         base_prompt, attempt, outcome, error, result>>
     ELSE Raise("Failed to get valid JSON response from LLM after retries")
  /\ UNCHANGED <<workout_data, feedback>>

\* the message of the exception each failure of the call is re-raised as
ConverseErrors ==
  [ClientError |-> "Bedrock API error",
   Exception   |-> "Error generating workout plan"]

\* faulty variant of ConverseRaises: a failed call is retried like an
\* unparseable response
ConverseRaises_retried(kind) ==
  /\ pc = "converse"
  /\ response' = kind
  /\ IF RetriesRemain(bedrock_attempt)
     THEN /\ bedrock_attempt' = bedrock_attempt + 1
          /\ converse_calls' = converse_calls + 1
          /\ UNCHANGED <<pc, input_data, optimal_sets, target_range,
                         base_prompt, attempt, prompt, outcome, error, result>>
     ELSE Raise(ConverseErrors[kind])
  /\ UNCHANGED <<workout_data, feedback>>

\* converse raises ClientError, or anything else goes wrong in the call
\* (`except ClientError`, `except Exception`): both handlers re-raise
ConverseRaises(kind) ==
  /\ pc = "converse"
  /\ response' = kind
  /\ Raise(ConverseErrors[kind])
  /\ UNCHANGED <<workout_data, feedback>>

Next ==
  \/ \E inp \in Inputs : ReceiveRequest(inp) /\ UNCHANGED Outside
  \/ \E value \in JSONValues : ConverseReturnsJSON(value) /\ UNCHANGED Outside
  \/ ConverseReturnsInvalidJSON /\ UNCHANGED Outside
  \/ \E kind \in DOMAIN ConverseErrors :
       ConverseRaises(kind) /\ UNCHANGED Outside

Spec == Init /\ [][Next]_vars

\* converse is a blocking call: it returns or raises, so a request that waits
\* for the generator always takes its next step
FairSpec == Spec /\ WF_vars(Next)

(***************************************************************************)
(* Properties of the Plan Generation Loop                                  *)
(***************************************************************************)
Returned == {"Accepted", "AcceptedWithWarning"}

Terminal == Returned \cup {"Failed"}

JSONError == "Failed to get valid JSON response from LLM after retries"

FrequencyError == "Generated plan exceeds maximum training frequency"

\* the value the last call returned is a candidate plan that reached the
\* frequency check
CandidateParsed(data) == Truthy(data) /\ IsDict(data)

\* C1: every request that passes input validation ends in exactly one of
\* Accepted, AcceptedWithWarning, Failed, within at most 5 attempts of the loop,
\* whatever the generator answers.
C1_Terminates ==
  /\ [](attempt + 1 <= 5)
  /\ [](pc = "done" /\ WorkoutPlannerInputValid(input_data)
          => outcome \in Terminal)
  /\ [](pc # "done" => outcome = "None")
  /\ <>(pc = "done")

\* a request that used all 5 attempts and ended
C1_Witness ==
  /\ pc = "done"
  /\ attempt + 1 = 5
  /\ outcome = "AcceptedWithWarning"

\* C2 (as claimed): the frequencies of the returned days sum to at most
\* training_frequency.
C2_ReturnedFrequencyWithinLimit ==
  outcome \in Returned
    => SumFrequency(result.workout_days, 0) <= input_data.training_frequency

\* the directives call_bedrock_for_workout has appended to its prompt
Directives(n) == [i \in 1..n |-> JSONDirective]

\* C3 (as claimed): a response that cannot be parsed is fatal only on the
\* final (5th) attempt.
C3_ParseFailureFatalOnlyOnLastAttempt ==
  (outcome = "Failed" /\ error = JSONError) => attempt + 1 = 5

\* C3 (amended): a response that cannot be parsed is answered inside
\* call_bedrock_for_workout: the directive is appended to the prompt of that
\* call and the generator is called again in the same attempt, the remediation
\* history untouched; the third unparseable response in a row is fatal on
\* whatever attempt it occurs.
C3_ParseFailureRetriedInsideTheCall ==
  /\ bedrock_attempt + 1 <= 3
  /\ pc = "converse"
       => /\ prompt = CurrentPrompt(base_prompt, attempt)
                        \o Directives(bedrock_attempt)
          /\ converse_calls = bedrock_attempt
  /\ (pc = "converse" /\ response = "invalid_json")
       => /\ bedrock_attempt >= 1
          /\ prompt[Len(prompt)] = JSONDirective
  /\ (pc = "done" /\ response = "invalid_json")
       => /\ outcome = "Failed" /\ error = JSONError
          /\ bedrock_attempt + 1 = 3 /\ converse_calls = 3

\* three unparseable responses end the first attempt, and the request
C3_Witness ==
  /\ outcome = "Failed" /\ error = JSONError
  /\ attempt = 0 /\ converse_calls = 3

FrequencyRejectedStep ==
  /\ pc = "converse"
  /\ response' = "json"
  /\ CandidateParsed(workout_data')
  /\ TotalFrequency(workout_data') > input_data.training_frequency

\* C5: a parsed candidate whose total frequency exceeds training_frequency: on
\* attempts 1..4 the frequency message is appended to the instructions and the
\* loop goes to the next generator call; on attempt 5 the request fails and no
\* plan is returned.
C5_FrequencyRejection ==
  [][FrequencyRejectedStep =>
       IF attempt + 1 < 5
       THEN /\ base_prompt' =
                 Append(base_prompt,
                        FrequencyMessage(TotalFrequency(workout_data'),
                                         input_data.training_frequency))
            /\ attempt' = attempt + 1
            /\ pc' = "converse"
            /\ prompt' = Append(base_prompt', Banner(attempt' + 1))
            /\ outcome' = "None"
       ELSE /\ pc' = "done"
            /\ outcome' = "Failed"
            /\ error' = FrequencyError
            /\ result' = <<>>]_vars

\* four frequency messages were appended and the fifth violation failed
C5_Witness ==
  /\ outcome = "Failed" /\ error = FrequencyError
  /\ attempt + 1 = 5
  /\ Len(base_prompt) = 5
  /\ \A i \in 2..5 : base_prompt[i].kind = "frequency"

\* the step in which a candidate is parsed, passes the frequency check and is
\* judged valid (is_valid) or not by the validator
ValidatedStep(is_valid) ==
  /\ pc = "converse"
  /\ response' = "json"
  /\ CandidateParsed(workout_data')
  /\ TotalFrequency(workout_data') <= input_data.training_frequency
  /\ validate_volume_targets(workout_data', target_range)[1] = is_valid

\* C6: the candidate of the 5th attempt passes the frequency check and is
\* rejected by the validator: the request ends in AcceptedWithWarning and the
\* plan returned is the sanitized candidate of that attempt.
C6_WarningOnLastAttempt ==
  [][(ValidatedStep(FALSE) /\ attempt + 1 = 5) =>
       /\ pc' = "done"
       /\ outcome' = "AcceptedWithWarning"
       /\ error' = "None"
       /\ result'.workout_days = SanitizeDays(workout_data')
       /\ result'.weekly_volume_summary =
            validate_and_calculate_volumes(workout_data')]_vars

\* the 5th candidate differs from the 4th, both rejected for their volumes
C6_Witness ==
  /\ outcome = "AcceptedWithWarning"
  /\ attempt + 1 = 5
  /\ base_prompt[5].kind = "volume"
  /\ base_prompt[5].feedback # feedback
  /\ result.workout_days = SanitizeDays(workout_data)

\* C7: a candidate that passes the frequency check and the validator ends the
\* loop in Accepted; that candidate is sanitized and returned, and no further
\* generator call (no further step at all) follows.
C7_AcceptedAtOnce ==
  /\ [][ValidatedStep(TRUE) =>
          /\ pc' = "done"
          /\ outcome' = "Accepted"
          /\ result' = WorkoutPlanOutput(workout_data', optimal_sets,
                                         target_range)
          /\ attempt' = attempt
          /\ base_prompt' = base_prompt]_vars
  /\ [][outcome # "Accepted"]_vars

\* accepted on the third attempt, with slightly-off muscles
C7_Witness ==
  /\ outcome = "Accepted"
  /\ attempt + 1 = 3
  /\ feedback.text = "Plan acceptable"

\* the ranges the data model declares for a PlannerInput
InDeclaredRanges(inp) ==
  /\ inp.training_status \in {1, 2, 3}
  /\ inp.sex \in {0, 1}
  /\ inp.recovery_factor >= 50 /\ inp.recovery_factor <= 120
  /\ inp.energy_balance_factor > 0
  /\ inp.age >= 10 /\ inp.age <= 100
  /\ inp.training_frequency >= 1 /\ inp.training_frequency <= 7
  /\ inp.dedication_level \in {"A", "B", "C"}

\* C8 (as claimed): an input with any field outside its declared range is
\* rejected with a validation error before any generator call is made.
C8_OutOfRangeInputRejected ==
  (pc # "idle" /\ ~InDeclaredRanges(input_data))
    => /\ pc = "done"
       /\ outcome = "ValidationError"
       /\ response = "None"

\* C9: estimated_optimal_sets and target_volume_range are computed once, before
\* the first attempt, and no attempt changes them: the loop's values, the target
\* every run of the validator reported against and the values returned are those
\* computed from the input.
C9_TargetsFixedAcrossAttempts ==
  (pc # "idle" /\ outcome # "ValidationError")
    => LET optimal == calculate_optimal_sets(input_data)
           target  == get_target_volume_range(optimal,
                                              input_data.dedication_level)
       IN /\ optimal_sets = optimal
          /\ target_range = target
          /\ \A i \in 1..Len(base_prompt) :
               base_prompt[i].kind = "volume"
                 => base_prompt[i].feedback.target = target
          /\ outcome \in Returned
               => /\ result.estimated_optimal_sets = optimal
                  /\ result.target_volume_range = target

\* a plan returned on the 5th attempt, after four volume rejections
C9_Witness ==
  /\ outcome \in Returned
  /\ attempt + 1 = 5
  /\ \A i \in 2..5 : base_prompt[i].kind = "volume"
  /\ result.target_volume_range = [min |-> 45, max |-> 50]

(***************************************************************************)
(* The Plan Validator on its own: validate_volume_targets applied to a     *)
(* plan and a target range                                                 *)
(***************************************************************************)
\* the largest number of sets per exercise in a plan handed to the validator
MaxSets == 13

\* the largest optimal_sets value, in steps of 5.0 sets, a target is built from
MaxOptimalSteps == 10

\* a leg day only: the upper-body muscles get no volume at all
LegDayPlan(sets, frequency) ==
  [workout_days |->
     <<[day_name |-> "Legs", frequency_per_week |-> frequency,
        exercises |-> LegExercises(sets)]>>]

\* a day that gives every muscle 6 or 6.5 sets
BalancedPlan(frequency) ==
  [workout_days |->
     <<[day_name |-> "Full body", frequency_per_week |-> frequency,
        exercises |->
          <<Exercise("Pull-ups & wide pulldowns", 6), Exercise("Chest flys", 3),
            Exercise("Lateral raises", 2), Exercise("Triceps extensions", 6),
            Exercise("Back extensions", 6), Exercise("Leg extensions", 6),
            Exercise("Calf raises/jumps", 6), Exercise("Ab crunches", 6)>>]>>]

\* a day that gives every one of the 12 muscles exactly 6 sets
ExactPlan(frequency) ==
  [workout_days |->
     <<[day_name |-> "Full body", frequency_per_week |-> frequency,
        exercises |->
          <<Exercise("Pull-ups & wide pulldowns", 4),
            Exercise("Pull-overs & lat prayers", 2), Exercise("Chest flys", 3),
            Exercise("Shrugs", 2), Exercise("Biceps curls", 2),
            Exercise("Triceps extensions", 4), Exercise("Back extensions", 6),
            Exercise("Leg extensions", 6), Exercise("Calf raises/jumps", 6),
            Exercise("Ab crunches", 6)>>]>>]

\* full-body and leg days of every size and frequency, the balanced and the
\* exact day at every frequency, a plan without workout_days, and the two
\* irregular plans
ValidatorPlans ==
  {OneDayPlan(sets, f) : sets \in 1..MaxSets, f \in 1..MaxFrequency}
    \cup {LegDayPlan(sets, f) : sets \in 1..MaxSets, f \in 1..MaxFrequency}
    \cup {BalancedPlan(f) : f \in 1..MaxFrequency}
    \cup {ExactPlan(f) : f \in 1..MaxFrequency}
    \cup {EmptyObject, SplitPlanNoFrequency(4), UntrustedPlan(4)}

\* the target ranges of every dedication level for optimal_sets 5.0, 10.0, ...
ValidatorTargets ==
  {get_target_volume_range(50 * k, level) :
     k \in 1..MaxOptimalSteps, level \in DOMAIN DedicationRanges}

ValidatorInit ==
  /\ pc = "validate"
  /\ workout_data \in ValidatorPlans
  /\ target_range \in ValidatorTargets
  /\ input_data = <<>>
  /\ optimal_sets = 0
  /\ base_prompt = <<>>
  /\ attempt = 0
  /\ prompt = <<>>
  /\ bedrock_attempt = 0
  /\ feedback = <<>>
  /\ outcome = NoneValue
  /\ error = NoneValue
  /\ result = <<>>
  /\ converse_calls = 0
  /\ response = NoneValue
  /\ OutsideInit

\* is_valid, feedback = self.validate_volume_targets(workout_data, target_range)
RunValidator ==
  /\ pc = "validate"
  /\ result' = validate_volume_targets(workout_data, target_range)
  /\ feedback' = result'[2]
  /\ pc' = "validated"
  /\ UNCHANGED <<input_data, optimal_sets, target_range, base_prompt, attempt,
                 prompt, bedrock_attempt, workout_data, outcome, error,
                 converse_calls, response>>

ValidatorNext == RunValidator /\ UNCHANGED Outside

ValidatorSpec == ValidatorInit /\ [][ValidatorNext]_vars

\* realized weekly volume of a muscle, in quarter sets
RealizedVolume(muscle) == WeeklyVolumes(workout_data)[muscle]

\* volume < target.min * 0.70 or volume > target.max * 1.30
\* (volume in quarters, target in tenths: both sides scaled by 4000)
BeyondTolerance(muscle) ==
  \/ RealizedVolume(muscle) * 1000 < target_range.min * 70 * 4
  \/ RealizedVolume(muscle) * 1000 > target_range.max * 130 * 4

\* between a tolerance bound and the target edge
SlightlyOff(muscle) ==
  /\ ~BeyondTolerance(muscle)
  /\ \/ RealizedVolume(muscle) * 10 < target_range.min * 4
     \/ RealizedVolume(muscle) * 10 > target_range.max * 4

\* the muscles the feedback reports as slightly off
ReportedSlightlyOff ==
  LET lines == Get(feedback, "slightly_off", <<>>)
  IN {lines[i].muscle : i \in DOMAIN lines}

WayTooLow(muscle) == RealizedVolume(muscle) * 1000 < target_range.min * 70 * 4

\* the exercises the rejection text suggests for a muscle
Suggested(muscle) ==
  LET fixes == Get(feedback, "fixes", <<>>)
  IN UNION {{fixes[i].add[k] : k \in DOMAIN fixes[i].add} :
              i \in {j \in DOMAIN fixes : fixes[j].muscle = muscle}}

\* an exercise that is a key of the catalog and activates the muscle
CatalogBacked(name, muscle) ==
  /\ name \in DOMAIN EXERCISE_DATABASE
  /\ muscle \in DOMAIN EXERCISE_DATABASE[name].activation

\* C11: for every muscle classified way-too-low, the rejection text contains
\* that muscle's deficit (target.min minus realized volume, to one decimal)
\* and a suggestion for that muscle naming at least one exercise that is a
\* key of the catalog and activates that muscle.
C11_LowMuscleGetsCatalogSuggestion ==
  pc = "validated" =>
    \A muscle \in MuscleSet :
      WayTooLow(muscle) =>
        /\ result[1] = FALSE
        /\ \E i \in DOMAIN feedback.way_too_low :
             /\ feedback.way_too_low[i].muscle = muscle
             /\ feedback.way_too_low[i].needs =
                  RoundHalfEven(2 * target_range.min - 5 * RealizedVolume(muscle), 2)
        /\ \E name \in Suggested(muscle) : CatalogBacked(name, muscle)

\* the exercises of day i of the candidate, and of day i of the returned plan
CandidateExercises(i) == Get(workout_data.workout_days[i], "exercises", <<>>)

ReturnedExercises(i) == result.workout_days[i].exercises

\* how many entries of a list of exercises carry the name
NameCount(exercises, name) ==
  Cardinality({k \in DOMAIN exercises :
                 Get(exercises[k], "exercise_name", NoneValue) = name})

\* the candidate's exercises whose name is a key of the catalog, in order
KnownExercises(i) ==
  SelectSeq(CandidateExercises(i),
            LAMBDA ex : Get(ex, "exercise_name", NoneValue)
                          \in DOMAIN EXERCISE_DATABASE)

\* the returned exercise is the candidate's one with the values it gave
KeepsGivenValues(returned, given) ==
  /\ returned.exercise_name = given.exercise_name
  /\ "sets" \in DOMAIN given => returned.sets = given.sets
  /\ "intensity" \in DOMAIN given => returned.intensity = given.intensity

\* C12: the sanitizer only removes.  Every exercise of the returned
\* workout_days has a name that is a key of the catalog; per day, no name
\* occurs more often in the output than in the candidate; and the returned
\* exercises are, in order, the candidate's known exercises with the sets and
\* intensity the candidate gave them.
C12_SanitizerOnlyRemoves ==
  outcome \in Returned =>
    /\ Len(result.workout_days) = Len(workout_data.workout_days)
    /\ \A i \in DOMAIN result.workout_days :
         /\ \A k \in DOMAIN ReturnedExercises(i) :
              ReturnedExercises(i)[k].exercise_name \in DOMAIN EXERCISE_DATABASE
         /\ \A name \in DOMAIN EXERCISE_DATABASE \cup {"Burpees", "Pull-ups"} :
              NameCount(ReturnedExercises(i), name)
                <= NameCount(CandidateExercises(i), name)
         /\ Len(ReturnedExercises(i)) = Len(KnownExercises(i))
         /\ \A k \in DOMAIN ReturnedExercises(i) :
              KeepsGivenValues(ReturnedExercises(i)[k], KnownExercises(i)[k])

\* a returned plan whose candidate had an unknown exercise that was dropped,
\* next to an exercise kept twice with different sets
C12_Witness ==
  /\ outcome \in Returned
  /\ \E i \in DOMAIN result.workout_days :
       /\ Len(ReturnedExercises(i)) < Len(CandidateExercises(i))
       /\ NameCount(CandidateExercises(i), "Burpees") = 1
       /\ NameCount(ReturnedExercises(i), "Ab crunches") = 2
       /\ \E k, l \in DOMAIN ReturnedExercises(i) :
            /\ ReturnedExercises(i)[k].exercise_name = "Ab crunches"
            /\ ReturnedExercises(i)[l].exercise_name = "Ab crunches"
            /\ ReturnedExercises(i)[k].sets # ReturnedExercises(i)[l].sets

\* the candidate leaves something to the defaults or names an unknown exercise
IrregularCandidate ==
  \E i \in DOMAIN workout_data.workout_days :
    \/ "frequency_per_week" \notin DOMAIN workout_data.workout_days[i]
    \/ \E k \in DOMAIN CandidateExercises(i) :
         \/ "sets" \notin DOMAIN CandidateExercises(i)[k]
         \/ CandidateExercises(i)[k].exercise_name
              \notin DOMAIN EXERCISE_DATABASE

\* C13: the weekly_volume_summary returned to the caller equals the
\* accountant's result computed on the sanitized workout_days returned with
\* it, for every candidate, including ones with unknown exercises or missing
\* fields.
C13_SummaryMatchesReturnedDays ==
  outcome \in Returned =>
    result.weekly_volume_summary
      = validate_and_calculate_volumes([workout_days |-> result.workout_days])

\* a returned plan whose days omitted frequency_per_week, with volume counted
C13_Witness ==
  /\ outcome \in Returned
  /\ IrregularCandidate
  /\ \A i \in DOMAIN workout_data.workout_days :
       "frequency_per_week" \notin DOMAIN workout_data.workout_days[i]
  /\ \E k \in DOMAIN result.weekly_volume_summary :
       result.weekly_volume_summary[k].weekly_sets > 0

\* the fields of WorkoutPlanOutput that describe the plan itself
PlanFields ==
  {"estimated_optimal_sets", "target_volume_range", "workout_days",
   "weekly_volume_summary"}

\* C15 (as claimed): when the loop ends in AcceptedWithWarning, the result
\* returned to the caller carries the remediation text of the last validation
\* as a diagnostic next to the plan.
C15_WarningCarriesRemediation ==
  outcome = "AcceptedWithWarning" =>
    \E field \in DOMAIN result \ PlanFields : result[field] = feedback

(***************************************************************************)
(* The Volume Target Calculator on its own: calculate_optimal_sets and     *)
(* get_target_volume_range applied to a valid input                        *)
(***************************************************************************)
\* valid inputs over the whole range of every field; energy_balance_factor
\* from 0.08 to 1.52
CalculatorInputs ==
  {Input(ts, sex, rf, ebf, age, tf, level) :
     ts \in {1, 2, 3}, sex \in {0, 1}, rf \in {50, 100, 120},
     ebf \in {8, 16, 48, 104, 152}, age \in {10, 50, 60, 100},
     tf \in {1, 2, 3, 7}, level \in DOMAIN DedicationRanges}

CalculatorInit ==
  /\ pc = "calculate"
  /\ input_data \in CalculatorInputs
  /\ optimal_sets = 0
  /\ target_range = [min |-> 0, max |-> 0]
  /\ base_prompt = <<>>
  /\ attempt = 0
  /\ prompt = <<>>
  /\ bedrock_attempt = 0
  /\ workout_data = <<>>
  /\ feedback = <<>>
  /\ outcome = NoneValue
  /\ error = NoneValue
  /\ result = <<>>
  /\ converse_calls = 0
  /\ response = NoneValue
  /\ OutsideInit

\* optimal_sets = self.calculate_optimal_sets(input_data)
\* target_range = self.get_target_volume_range(optimal_sets, dedication_level)
RunCalculator ==
  /\ pc = "calculate"
  /\ optimal_sets' = calculate_optimal_sets(input_data)
  /\ target_range' =
       get_target_volume_range(optimal_sets', input_data.dedication_level)
  /\ pc' = "calculated"
  /\ UNCHANGED <<input_data, base_prompt, attempt, prompt, bedrock_attempt,
                 workout_data, feedback, outcome, error, result,
                 converse_calls, response>>

CalculatorNext == RunCalculator /\ UNCHANGED Outside

CalculatorSpec == CalculatorInit /\ [][CalculatorNext]_vars

\* C16 (as claimed): for every valid input the computed target range
\* satisfies 0 <= target_range.min < target_range.max.
C16_TargetRangeOrdered ==
  pc = "calculated" /\ WorkoutPlannerInputValid(input_data)
                    /\ InDeclaredRanges(input_data)
    => 0 <= target_range.min /\ target_range.min < target_range.max

IsPrefix(s, t) == Len(s) <= Len(t) /\ SubSeq(t, 1, Len(s)) = s

\* the remediation text of the candidate the last call returned
RemediationOf(data) ==
  IF TotalFrequency(data) > input_data.training_frequency
  THEN FrequencyMessage(TotalFrequency(data), input_data.training_frequency)
  ELSE VolumeMessage(validate_volume_targets(data, target_range)[2])

\* C18: remediation is a growing accumulator.  Going from attempt i to
\* attempt i+1 appends the remediation of the candidate just rejected
\* (frequency or volume) to the instructions, which are otherwise kept as they
\* were, so the instructions of attempt i without the banner are a prefix of
\* those of attempt i+1; they change at no other step; and what is sent on any
\* attempt is the base instructions, then one remediation per earlier attempt,
\* then the banner of the attempt (then the directives of the call's own
\* retries).
C18_RemediationAccumulates ==
  /\ [][attempt' # attempt =>
          /\ attempt' = attempt + 1
          /\ IsPrefix(base_prompt, base_prompt')
          /\ base_prompt' = Append(base_prompt, RemediationOf(workout_data'))
          /\ prompt' = Append(base_prompt', Banner(attempt' + 1))]_vars
  /\ [][attempt' = attempt /\ pc # "idle" => base_prompt' = base_prompt]_vars
  /\ [](pc = "converse" =>
          /\ Len(base_prompt) = attempt + 1
          /\ base_prompt[1]
               = BasePrompt(input_data, optimal_sets, target_range)
          /\ \A k \in 2..Len(base_prompt) :
               base_prompt[k].kind \in {"frequency", "volume"}
          /\ prompt = CurrentPrompt(base_prompt, attempt)
                        \o Directives(bedrock_attempt))

\* the third attempt is being made after a frequency rejection followed by a
\* volume rejection
C18_Witness ==
  /\ pc = "converse"
  /\ attempt = 2
  /\ base_prompt[2].kind = "frequency"
  /\ base_prompt[3].kind = "volume"
  /\ prompt = <<base_prompt[1], base_prompt[2], base_prompt[3], Banner(3)>>

(***************************************************************************)
(* The loop against a generator that plans too many days                   *)
(***************************************************************************)
\* one request per training_frequency of 1 to 7 days
FrequencyInputs == {Input(1, 0, 100, 100, 30, tf, "C") : tf \in 1..7}

\* 1 set on 8 days a week, 2 sets twice a week, 4 sets on the largest regular
\* frequency
FrequencyPlans ==
  {OneDayPlan(1, 8), OneDayPlan(2, 2), OneDayPlan(4, MaxFrequency)}

FrequencyNext ==
  \/ \E inp \in FrequencyInputs : ReceiveRequest(inp) /\ UNCHANGED Outside
  \/ \E value \in FrequencyPlans :
       ConverseReturnsJSON(value) /\ UNCHANGED Outside

FrequencySpec == Init /\ [][FrequencyNext]_vars

\* C20: the frequency check precedes volume validation on every attempt.  A
\* candidate whose total frequency_per_week exceeds training_frequency is
\* rejected without the volume validator being run (no feedback is produced),
\* and only the frequency message is appended for that attempt (nothing at all
\* on the 5th, which fails), whatever the candidate's volumes are.
C20_FrequencyCheckFirst ==
  [][FrequencyRejectedStep =>
       /\ feedback' = feedback
       /\ outcome' \notin Returned
       /\ IF attempt + 1 < 5
          THEN /\ attempt' = attempt + 1
               /\ base_prompt' =
                    Append(base_prompt,
                           FrequencyMessage(TotalFrequency(workout_data'),
                                            input_data.training_frequency))
          ELSE /\ base_prompt' = base_prompt
               /\ outcome' = "Failed"
               /\ error' = FrequencyError]_vars

\* one day with frequency 8 was rejected for training_frequency 7 although
\* the validator would have accepted its volumes; the validator has not run
C20_Witness ==
  /\ pc = "converse"
  /\ attempt = 1
  /\ input_data.training_frequency = 7
  /\ TotalFrequency(workout_data) = 8
  /\ validate_volume_targets(workout_data, target_range)[1] = TRUE
  /\ feedback = <<>>
  /\ base_prompt = <<base_prompt[1], FrequencyMessage(8, 7)>>

\* ---------------------------------------------------------------------------
\* POST /api/workout-plan (server.py create_workout_plan) on the JSON file
\* database (database.py, the backend chosen when USE_DYNAMODB is unset).
\* The handler is an async def without an await, so one call runs to its end
\* before the next one starts.
\* ---------------------------------------------------------------------------

MaxStoredPlans == 4

Users == {"user_1", "user_2", "user_3"}

\* all(doc.get(k) == v for k, v in query.items())
Matches(doc, query) ==
  \A k \in DOMAIN query : k \in DOMAIN doc /\ doc[k] = query[k]

\* doc.update(update); doc['updated_at'] = datetime.now().isoformat()
UpdatedDoc(doc, fields) ==
  [k \in DOMAIN doc \cup DOMAIN fields \cup {"updated_at"} |->
     IF k = "updated_at" THEN "now"
     ELSE IF k \in DOMAIN fields THEN fields[k] ELSE doc[k]]

\* A JSONDatabase.update that computes the new documents and never writes
\* them back to the file.
update_without_write(data, query, fields) == data

\* JSONDatabase.update: every matching document of the file is updated
update(data, query, fields) ==
  [i \in DOMAIN data |->
     IF Matches(data[i], query) THEN UpdatedDoc(data[i], fields) ELSE data[i]]

\* JSONDatabase.insert: the document goes to the end of the file
insert(data, document) == Append(data, document)

\* WorkoutPlan(**plan.dict()): id from uuid4 (a value no stored plan has),
\* active defaults to True, deactivated_at to None
WorkoutPlan(plan, data) ==
  [id |-> Len(data) + 1, user_id |-> plan.user_id, active |-> TRUE,
   deactivated_at |-> NoneValue]

\* The request bodies: exercises either convert to Exercise objects or not
\* (List[Dict] accepts any dicts, List[Exercise] does not).
WorkoutPlanCreate ==
  [user_id : Users, exercises_convert : BOOLEAN]

TrackingInit ==
  /\ pc = "tracking"
  /\ workout_plans = <<>>
  /\ created = [u \in Users |-> 0]
  /\ responses = <<>>
  /\ suspended = <<>>
  /\ input_data = <<>>
  /\ optimal_sets = 0
  /\ target_range = <<>>
  /\ base_prompt = <<>>
  /\ attempt = 0
  /\ prompt = <<>>
  /\ bedrock_attempt = 0
  /\ workout_data = <<>>
  /\ feedback = <<>>
  /\ outcome = NoneValue
  /\ error = NoneValue
  /\ result = <<>>
  /\ converse_calls = 0
  /\ response = NoneValue

\* create_workout_plan: deactivate the user's active plans, then build and
\* insert the new one.  When WorkoutPlan(**plan.dict()) raises, the handler
\* answers 500 after the deactivation was written and nothing is inserted.
create_workout_plan(plan) ==
  /\ pc = "tracking"
  /\ Len(workout_plans) < MaxStoredPlans
  /\ LET deactivated ==
           update(workout_plans,
                  [user_id |-> plan.user_id, active |-> TRUE],
                  [active |-> FALSE, deactivated_at |-> "now"])
         plan_obj == WorkoutPlan(plan, deactivated)
     IN  IF plan.exercises_convert
         THEN /\ workout_plans' = insert(deactivated, plan_obj)
              /\ created' = [created EXCEPT ![plan.user_id] = plan_obj.id]
         ELSE /\ workout_plans' = deactivated
              /\ created' = [created EXCEPT ![plan.user_id] = 0]
  /\ UNCHANGED <<pc, input_data, optimal_sets, target_range, base_prompt,
                 attempt, prompt, bedrock_attempt, workout_data, feedback,
                 outcome, error, result, converse_calls, response, responses,
                 suspended>>

TrackingNext == \E plan \in WorkoutPlanCreate : create_workout_plan(plan)

TrackingSpec == TrackingInit /\ [][TrackingNext]_vars

\* the ids of the stored plans of a user that are active
ActivePlans(user) ==
  {workout_plans[i].id : i \in
     {j \in DOMAIN workout_plans :
        workout_plans[j].user_id = user /\ workout_plans[j].active = TRUE}}

\* C17: after any sequence of create_workout_plan calls every user has at most
\* one stored plan with active = True, and that plan is the one the user's
\* most recent call created (a call that answered 500 created none, and then
\* the user has no active plan).
C17_OneActivePlanPerUser ==
  pc = "tracking" =>
    \A user \in Users :
      /\ Cardinality(ActivePlans(user)) <= 1
      /\ ActivePlans(user) = IF created[user] = 0 THEN {} ELSE {created[user]}

\* a user with two stored plans, the older deactivated by the second call,
\* next to another user whose plan stayed active
C17_Witness ==
  /\ pc = "tracking"
  /\ \E i, j \in DOMAIN workout_plans :
       /\ i < j
       /\ workout_plans[i].user_id = workout_plans[j].user_id
       /\ workout_plans[i].active = FALSE
       /\ workout_plans[j].active = TRUE
       /\ created[workout_plans[j].user_id] = workout_plans[j].id
  /\ \E k \in DOMAIN workout_plans :
       /\ workout_plans[k].user_id = "user_2"
       /\ workout_plans[k].active = TRUE
       /\ \E i \in DOMAIN workout_plans : workout_plans[i].user_id = "user_1"

\* ---------------------------------------------------------------------------
\* One request with a record of every answer of bedrock_client.converse.
\* ---------------------------------------------------------------------------

\* one answer of the generator
Answer(kind, value) == [kind |-> kind, value |-> value]

\* the answer is recorded; nothing else outside the request's locals changes
Answered(kind, value) ==
  /\ responses' = Append(responses, Answer(kind, value))
  /\ UNCHANGED <<suspended, workout_plans, created>>

\* target 4.5 - 5.0 at one session a week
LoggedInput == Input(1, 0, 100, 100, 30, 1, "C")

\* a plan that input accepts and one its validator rejects
LoggedPlans == {OneDayPlan(4, 1), OneDayPlan(2, 1)}

LoggedNext ==
  \/ ReceiveRequest(LoggedInput) /\ UNCHANGED Outside
  \/ \E value \in LoggedPlans :
       ConverseReturnsJSON(value) /\ Answered("json", value)
  \/ ConverseReturnsInvalidJSON /\ Answered("invalid_json", EmptyObject)
  \/ \E kind \in DOMAIN ConverseErrors :
       ConverseRaises(kind) /\ Answered(kind, EmptyObject)

LoggedSpec == Init /\ [][LoggedNext]_vars

\* how many of the recorded answers are of the given kind
RECURSIVE CountKind(_, _)
CountKind(log, kind) ==
  IF log = <<>> THEN 0
  ELSE (IF log[Len(log)].kind = kind THEN 1 ELSE 0)
       + CountKind(SubSeq(log, 1, Len(log) - 1), kind)

\* the attempts of the request that have been started
AttemptsStarted == IF pc = "idle" THEN 0 ELSE attempt + 1

\* C19 (as stated): the generator is invoked exactly once per attempt, hence
\* at most 5 times in one request.
C19_OncePerAttempt ==
  /\ Len(responses) <= max_attempts
  /\ pc = "done" /\ outcome \in Terminal => Len(responses) = AttemptsStarted

\* the unparseable answers after which the generator was invoked again: all of
\* them, but for the third in a row, which ends the request
RetriedAnswers ==
  CountKind(responses, "invalid_json")
    - (IF outcome = "Failed" /\ error = JSONError THEN 1 ELSE 0)

\* C19 (amended): besides the attempt loop, call_bedrock_for_workout retries an
\* unparseable answer.  Every attempt invokes the generator once plus once per
\* unparseable answer it retried, at most max_retries times; a request makes
\* at most max_attempts * max_retries = 15 invocations, and exactly one per
\* attempt (at most 5) only when every answer parsed.
C19_CallsPerAttempt ==
  /\ converse_calls <= max_retries
  /\ Len(responses) <= AttemptsStarted * max_retries
  /\ Len(responses) <= max_attempts * max_retries
  /\ pc = "done" /\ outcome \in Terminal =>
       /\ Len(responses) = AttemptsStarted + RetriedAnswers
       /\ CountKind(responses, "invalid_json") = 0 =>
            Len(responses) = AttemptsStarted /\ Len(responses) <= max_attempts

\* a request that ran all 5 attempts with 3 invocations each
C19_Witness ==
  /\ pc = "done"
  /\ outcome = "AcceptedWithWarning"
  /\ AttemptsStarted = max_attempts
  /\ Len(responses) = max_attempts * max_retries
  /\ CountKind(responses, "invalid_json") = max_attempts * (max_retries - 1)

\* ---------------------------------------------------------------------------
\* Two requests on the module-level WorkoutPlanner instance (server.py:69).
\* Everything generate_workout_plan and call_bedrock_for_workout assign is a
\* local of the call; the instance holds bedrock_client and model_id, set once
\* in __init__.  One request runs at a time and may be preempted while it
\* waits for the generator; the locals of the other call are kept in
\* `suspended`.
\* ---------------------------------------------------------------------------

\* request 1: target 4.5 - 5.0, one session a week;
\* request 2: target 10.6 - 12.7, two sessions a week
ConcurrentInputs ==
  <<Input(1, 0, 100, 100, 30, 1, "C"), Input(2, 0, 100, 100, 30, 2, "B")>>

\* request 1 accepts the first plan, request 2 the second; the first exceeds
\* no frequency limit, the second exceeds that of request 1; the third misses
\* the volume targets of both
ConcurrentPlans == {OneDayPlan(4, 1), OneDayPlan(4, 2), OneDayPlan(2, 1)}

\* the locals of a call, as a record
Frame(request) ==
  [request |-> request, pc |-> pc, input_data |-> input_data,
   optimal_sets |-> optimal_sets, target_range |-> target_range,
   base_prompt |-> base_prompt, attempt |-> attempt, prompt |-> prompt,
   bedrock_attempt |-> bedrock_attempt, workout_data |-> workout_data,
   feedback |-> feedback, outcome |-> outcome, error |-> error,
   result |-> result, converse_calls |-> converse_calls,
   response |-> response, responses |-> responses]

\* the locals of a call that has not started
NewFrame(request) ==
  [request |-> request, pc |-> "idle", input_data |-> <<>>,
   optimal_sets |-> 0, target_range |-> [min |-> 0, max |-> 0],
   base_prompt |-> <<>>, attempt |-> 0, prompt |-> <<>>,
   bedrock_attempt |-> 0, workout_data |-> <<>>,
   feedback |-> <<>>, outcome |-> "None", error |-> "None",
   result |-> <<>>, converse_calls |-> 0,
   response |-> "None", responses |-> <<>>]

\* the request that is running
Running == 3 - suspended.request

\* request 1 is about to start, request 2 has not started
ConcurrentInit ==
  /\ suspended = NewFrame(2)
  /\ pc = NewFrame(1).pc
  /\ input_data = NewFrame(1).input_data
  /\ optimal_sets = NewFrame(1).optimal_sets
  /\ target_range = NewFrame(1).target_range
  /\ base_prompt = NewFrame(1).base_prompt
  /\ attempt = NewFrame(1).attempt
  /\ prompt = NewFrame(1).prompt
  /\ bedrock_attempt = NewFrame(1).bedrock_attempt
  /\ workout_data = NewFrame(1).workout_data
  /\ feedback = NewFrame(1).feedback
  /\ outcome = NewFrame(1).outcome
  /\ error = NewFrame(1).error
  /\ result = NewFrame(1).result
  /\ converse_calls = NewFrame(1).converse_calls
  /\ response = NewFrame(1).response
  /\ responses = NewFrame(1).responses
  /\ workout_plans = <<>>
  /\ created = <<>>

\* faulty variant of Switch: base_prompt is kept on the instance
\* (self.base_prompt) instead of in the call, so it is not switched
Switch_shared_base_prompt ==
  /\ suspended' = Frame(Running)
  /\ pc' = suspended.pc
  /\ input_data' = suspended.input_data
  /\ optimal_sets' = suspended.optimal_sets
  /\ target_range' = suspended.target_range
  /\ base_prompt' = base_prompt
  /\ attempt' = suspended.attempt
  /\ prompt' = suspended.prompt
  /\ bedrock_attempt' = suspended.bedrock_attempt
  /\ workout_data' = suspended.workout_data
  /\ feedback' = suspended.feedback
  /\ outcome' = suspended.outcome
  /\ error' = suspended.error
  /\ result' = suspended.result
  /\ converse_calls' = suspended.converse_calls
  /\ response' = suspended.response
  /\ responses' = suspended.responses
  /\ UNCHANGED <<workout_plans, created>>

\* the other request runs on: each call finds its own locals as it left them
Switch ==
  /\ suspended' = Frame(Running)
  /\ pc' = suspended.pc
  /\ input_data' = suspended.input_data
  /\ optimal_sets' = suspended.optimal_sets
  /\ target_range' = suspended.target_range
  /\ base_prompt' = suspended.base_prompt
  /\ attempt' = suspended.attempt
  /\ prompt' = suspended.prompt
  /\ bedrock_attempt' = suspended.bedrock_attempt
  /\ workout_data' = suspended.workout_data
  /\ feedback' = suspended.feedback
  /\ outcome' = suspended.outcome
  /\ error' = suspended.error
  /\ result' = suspended.result
  /\ converse_calls' = suspended.converse_calls
  /\ response' = suspended.response
  /\ responses' = suspended.responses
  /\ UNCHANGED <<workout_plans, created>>

ConcurrentNext ==
  \/ ReceiveRequest(ConcurrentInputs[Running]) /\ UNCHANGED Outside
  \/ \E value \in ConcurrentPlans :
       ConverseReturnsJSON(value) /\ Answered("json", value)
  \/ Switch

ConcurrentSpec == ConcurrentInit /\ [][ConcurrentNext]_vars

\* generate_workout_plan run alone, as a function of its input and of the
\* answers of the generator: the locals after the first generator call was
\* issued ...
AloneStart(inp) ==
  LET optimal == calculate_optimal_sets(inp)
      target  == get_target_volume_range(optimal, inp.dedication_level)
  IN [input_data |-> inp, optimal_sets |-> optimal, target_range |-> target,
      base_prompt |-> <<BasePrompt(inp, optimal, target)>>, attempt |-> 0,
      prompt |-> <<BasePrompt(inp, optimal, target)>>,
      outcome |-> "None", error |-> "None", result |-> <<>>]

\* ... `continue` with msg appended to base_prompt ...
AloneRetry(f, msg) ==
  [f EXCEPT !.base_prompt = Append(f.base_prompt, msg),
            !.attempt = f.attempt + 1,
            !.prompt = CurrentPrompt(Append(f.base_prompt, msg), f.attempt + 1)]

\* ... an exception leaves the call ...
AloneRaise(f, e) == [f EXCEPT !.outcome = "Failed", !.error = e]

\* ... `break` and the return ...
AloneReturn(f, state, value) ==
  [f EXCEPT !.outcome = state,
            !.result = WorkoutPlanOutput(value, f.optimal_sets, f.target_range)]

\* ... and the loop body on a candidate the generator returned
AloneStep(f, value) ==
  IF f.outcome # "None" THEN f
  ELSE IF ~Truthy(value) THEN AloneRaise(f, "Failed to generate workout plan")
  ELSE IF ~IsDict(value) THEN AloneRaise(f, "AttributeError")
  ELSE IF FrequencyExceeded(value, f.input_data)
  THEN IF AttemptsRemain(f.attempt)
       THEN AloneRetry(f, FrequencyMessage(TotalFrequency(value),
                                           f.input_data.training_frequency))
       ELSE AloneRaise(f, FrequencyError)
  ELSE LET verdict == validate_volume_targets(value, f.target_range)
       IN IF verdict[1] THEN AloneReturn(f, "Accepted", value)
          ELSE IF AttemptsRemain(f.attempt)
          THEN AloneRetry(f, VolumeMessage(verdict[2]))
          ELSE AloneReturn(f, "AcceptedWithWarning", value)

RECURSIVE Alone(_, _)
Alone(inp, log) ==
  IF log = <<>> THEN AloneStart(inp)
  ELSE AloneStep(Alone(inp, SubSeq(log, 1, Len(log) - 1)),
                 log[Len(log)].value)

\* the call, preempted or not, is where it would be had it run alone against
\* the answers it received
AsAlone(frame) ==
  frame.pc # "idle" =>
    LET alone == Alone(ConcurrentInputs[frame.request], frame.responses)
    IN /\ frame.outcome = alone.outcome
       /\ frame.error = alone.error
       /\ frame.result = alone.result
       /\ frame.attempt = alone.attempt
       /\ frame.base_prompt = alone.base_prompt
       /\ frame.prompt = alone.prompt

\* the remediation in the instructions of a call: one segment per rejected
\* candidate of that call, in order, each computed from the call's own input
OwnRemediation(frame) ==
  frame.pc # "idle" =>
    /\ frame.base_prompt[1].training_frequency
         = ConcurrentInputs[frame.request].training_frequency
    /\ Len(frame.base_prompt) = 1 + frame.attempt
    /\ \A k \in 1..frame.attempt :
         LET value == frame.responses[k].value
             msg   == frame.base_prompt[k + 1]
         IN IF FrequencyExceeded(value, ConcurrentInputs[frame.request])
            THEN msg = FrequencyMessage(
                         TotalFrequency(value),
                         ConcurrentInputs[frame.request].training_frequency)
            ELSE msg = VolumeMessage(
                         validate_volume_targets(value, frame.target_range)[2])

\* C14: two requests interleaved on the shared instance are independent: in
\* every state the instructions of each request hold only the remediation of
\* its own rejected candidates, and the outcome, error, result, attempt and
\* instructions of each request are those of the request run alone against the
\* answers it received.
C14_RequestsIndependent ==
  \A frame \in {Frame(Running), suspended} :
    AsAlone(frame) /\ OwnRemediation(frame)

\* both requests are waiting for the generator in the middle of their loops:
\* request 1 on its third attempt after a frequency and a volume rejection,
\* request 2 on its fourth after three volume rejections
C14_Witness ==
  /\ Running = 1
  /\ pc = "converse" /\ attempt = 2
  /\ base_prompt[2].kind = "frequency" /\ base_prompt[3].kind = "volume"
  /\ suspended.pc = "converse" /\ suspended.attempt = 3
  /\ \A k \in 2..4 : suspended.base_prompt[k].kind = "volume"

(***************************************************************************)
(* The Plan Volume Accountant on its own: validate_and_calculate_volumes   *)
(* applied to a plan                                                       *)
(***************************************************************************)
\* the largest number of days in a plan handed to the accountant
MaxDays == 3

\* the days the plans are built from: a day at frequency 2 whose exercises
\* have coefficients 0.25, 0.5 and 0.75; a day without frequency_per_week; a
\* day with an exercise that is not in the catalog, an exercise without sets
\* and one known exercise; a day without exercises; a leg day
AccountantDays ==
  {[day_name |-> "Pull", frequency_per_week |-> 2,
    exercises |-> <<Exercise("Powerlifting deadlift", 1),
                    Exercise("Leg curls", 3)>>],
   [day_name |-> "Upper", exercises |-> UpperExercises(3)],
   [day_name |-> "Untrusted", frequency_per_week |-> MaxFrequency,
    exercises |-> <<[exercise_name |-> "Burpees", sets |-> 3, intensity |-> 70,
                     muscle_activation |-> ("Quadriceps" :> 4)],
                    [exercise_name |-> "Biceps curls"],
                    Exercise("Lateral raises", 1)>>],
   [day_name |-> "Rest", frequency_per_week |-> 1],
   [day_name |-> "Legs", frequency_per_week |-> 1,
    exercises |-> LegExercises(2)]}

\* every sequence of up to MaxDays of these days, and the object without
\* workout_days
AccountantPlans ==
  {[workout_days |-> days] :
     days \in UNION {[1..n -> AccountantDays] : n \in 0..MaxDays}}
    \cup {EmptyObject}

AccountantInit ==
  /\ pc = "account"
  /\ workout_data \in AccountantPlans
  /\ target_range = [min |-> 0, max |-> 0]
  /\ input_data = <<>>
  /\ optimal_sets = 0
  /\ base_prompt = <<>>
  /\ attempt = 0
  /\ prompt = <<>>
  /\ bedrock_attempt = 0
  /\ feedback = <<>>
  /\ outcome = NoneValue
  /\ error = NoneValue
  /\ result = <<>>
  /\ converse_calls = 0
  /\ response = NoneValue
  /\ OutsideInit

\* volume_summary = self.validate_and_calculate_volumes(workout_data)
RunAccountant ==
  /\ pc = "account"
  /\ result' = validate_and_calculate_volumes(workout_data)
  /\ pc' = "accounted"
  /\ UNCHANGED <<input_data, optimal_sets, target_range, base_prompt, attempt,
                 prompt, bedrock_attempt, workout_data, feedback, outcome,
                 error, converse_calls, response>>

AccountantNext == RunAccountant /\ UNCHANGED Outside

AccountantSpec == AccountantInit /\ [][AccountantNext]_vars

\* the days and the exercises of a plan
DaysOf(data) == Get(data, "workout_days", <<>>)

ExercisesOf(day) == Get(day, "exercises", <<>>)

\* what one exercise entry of a day adds to a muscle, in quarter sets:
\* sets * coefficient * day.frequency_per_week when the name is a catalog key
\* that activates the muscle, nothing otherwise
Contribution(day, exercise, muscle) ==
  LET name == Get(exercise, "exercise_name", NoneValue)
  IN IF name \in DOMAIN EXERCISE_DATABASE
        /\ muscle \in DOMAIN EXERCISE_DATABASE[name].activation
     THEN Get(exercise, "sets", 0) * EXERCISE_DATABASE[name].activation[muscle]
            * Get(day, "frequency_per_week", 1)
     ELSE 0

\* the (day, exercise) positions of a plan
Positions(data) ==
  UNION {{<<d, e>> : e \in DOMAIN ExercisesOf(DaysOf(data)[d])} :
           d \in DOMAIN DaysOf(data)}

RECURSIVE SumContributions(_, _, _)
SumContributions(data, positions, muscle) ==
  IF positions = {} THEN 0
  ELSE LET p == CHOOSE q \in positions : TRUE
       IN Contribution(DaysOf(data)[p[1]],
                       ExercisesOf(DaysOf(data)[p[1]])[p[2]], muscle)
          + SumContributions(data, positions \ {p}, muscle)

\* the sum the accountant is to report for a muscle, in quarter sets
ContributedVolume(data, muscle) ==
  SumContributions(data, Positions(data), muscle)

\* the plan without the exercises whose name is not a catalog key
WithoutUnknown(data) ==
  IF "workout_days" \notin DOMAIN data THEN data
  ELSE [workout_days |->
          [d \in DOMAIN data.workout_days |->
             IF "exercises" \notin DOMAIN data.workout_days[d]
             THEN data.workout_days[d]
             ELSE [data.workout_days[d] EXCEPT !.exercises =
                     SelectSeq(@, LAMBDA x :
                       Get(x, "exercise_name", NoneValue)
                         \in DOMAIN EXERCISE_DATABASE)]]]

\* the report names exactly the 12 muscle groups, each once
ReportsTwelveMuscles ==
  /\ Len(result) = 12
  /\ {result[i].muscle_group : i \in DOMAIN result} = MuscleSet
  /\ \A i, j \in DOMAIN result :
       result[i].muscle_group = result[j].muscle_group => i = j

\* C21 (as stated): the accountant returns a value for exactly the 12 muscle
\* groups and each value equals the sum of sets * coefficient *
\* frequency_per_week over the catalogued exercises of the plan.
\* (weekly_sets in tenths, the sum in quarters)
C21_ValueIsSum ==
  pc = "accounted" =>
    /\ ReportsTwelveMuscles
    /\ \A i \in DOMAIN result :
         result[i].weekly_sets * 4
           = ContributedVolume(workout_data, result[i].muscle_group) * 10

\* C21 (amended): the accountant returns a value for exactly the 12 muscle
\* groups; each value is the sum of sets * coefficient * frequency_per_week
\* over the catalogued exercises of the plan rounded to one decimal (a sum
\* ending in .25 or .75 goes to the even neighbour), is 0 for a muscle with
\* no contributing exercise, and exercises that are not in the catalog
\* contribute nothing.
C21_ValueIsRoundedSum ==
  pc = "accounted" =>
    /\ ReportsTwelveMuscles
    /\ \A i \in DOMAIN result :
         LET muscle == result[i].muscle_group
             volume == ContributedVolume(workout_data, muscle)
         IN /\ result[i].weekly_sets = RoundHalfEven(volume * 10, 4)
            /\ (\A p \in Positions(workout_data) :
                  Contribution(DaysOf(workout_data)[p[1]],
                               ExercisesOf(DaysOf(workout_data)[p[1]])[p[2]],
                               muscle) = 0)
                 => result[i].weekly_sets = 0
    /\ result = validate_and_calculate_volumes(WithoutUnknown(workout_data))

\* the report of a plan of MaxDays days with an unknown exercise, a day
\* without frequency_per_week, a muscle whose sum does not fall on a tenth
\* and a muscle nothing contributes to
C21_Witness ==
  /\ pc = "accounted"
  /\ Len(DaysOf(workout_data)) = MaxDays
  /\ \E d \in DOMAIN DaysOf(workout_data) :
       "frequency_per_week" \notin DOMAIN DaysOf(workout_data)[d]
  /\ WithoutUnknown(workout_data) # workout_data
  /\ \E m \in MuscleSet : ContributedVolume(workout_data, m) % 2 = 1
  /\ \E m \in MuscleSet : ContributedVolume(workout_data, m) = 0

\* every one of the 12 muscles has exactly this realized volume (in tenths)
AllMusclesAt(tenths) ==
  \A muscle \in MuscleSet : RealizedVolume(muscle) * 10 = tenths * 4

NoDeviation == <<TRUE, [text |-> "All muscle groups within target range"]>>

\* C22: when every one of the 12 muscles has realized volume exactly
\* target.min, and likewise exactly target.max, the validator accepts and
\* lists no deviation: the target edges are inclusive.
C22_TargetEdgesInclusive ==
  pc = "validated" =>
    /\ AllMusclesAt(target_range.min) => result = NoDeviation
    /\ AllMusclesAt(target_range.max) => result = NoDeviation

\* the exact day once a week judged against the target 6.0 - 7.5
C22_Witness ==
  /\ pc = "validated"
  /\ workout_data = ExactPlan(1)
  /\ target_range = [min |-> 60, max |-> 75]
  /\ AllMusclesAt(target_range.min)
  /\ result = NoDeviation

\* the exact day three times a week judged against the target 15.0 - 18.0
C22_AtMax ==
  /\ pc = "validated"
  /\ workout_data = ExactPlan(MaxFrequency)
  /\ AllMusclesAt(target_range.max)
  /\ target_range.min < target_range.max

\* the plan with its days in the order p (a permutation of their positions)
PermuteDays(data, p) ==
  IF "workout_days" \notin DOMAIN data THEN data
  ELSE [data EXCEPT !.workout_days = [i \in DOMAIN @ |-> @[p[i]]]]

\* the plan with the exercises of day d in the order p
PermuteExercises(data, d, p) ==
  [data EXCEPT !.workout_days[d].exercises = [i \in DOMAIN @ |-> @[p[i]]]]

\* C23: the accountant's output is unchanged under any permutation of the
\* days of a plan, and of the exercises within a day.
C23_OrderIndependent ==
  pc = "accounted" =>
    /\ \A p \in Permutations(DOMAIN DaysOf(workout_data)) :
         validate_and_calculate_volumes(PermuteDays(workout_data, p)) = result
    /\ \A d \in DOMAIN DaysOf(workout_data) :
         \A p \in Permutations(DOMAIN ExercisesOf(DaysOf(workout_data)[d])) :
           "exercises" \in DOMAIN DaysOf(workout_data)[d] =>
             validate_and_calculate_volumes(
               PermuteExercises(workout_data, d, p)) = result

\* the report of a plan of MaxDays different days, two of which give volume
\* to the same muscle, one holding three exercises
C23_Witness ==
  /\ pc = "accounted"
  /\ Len(DaysOf(workout_data)) = MaxDays
  /\ \A i, j \in DOMAIN DaysOf(workout_data) :
       DaysOf(workout_data)[i] = DaysOf(workout_data)[j] => i = j
  /\ \E d \in DOMAIN DaysOf(workout_data) :
       Len(ExercisesOf(DaysOf(workout_data)[d])) = 3
  /\ \E m \in MuscleSet, p, q \in Positions(workout_data) :
       /\ p[1] # q[1]
       /\ Contribution(DaysOf(workout_data)[p[1]],
                       ExercisesOf(DaysOf(workout_data)[p[1]])[p[2]], m) > 0
       /\ Contribution(DaysOf(workout_data)[q[1]],
                       ExercisesOf(DaysOf(workout_data)[q[1]])[q[2]], m) > 0

\* the inputs that differ from input_data in the given field only, with a
\* value of that field at least as large
RaisedIn(field) ==
  {other \in CalculatorInputs :
     /\ other[field] >= input_data[field]
     /\ \A f \in DOMAIN input_data \ {field} : other[f] = input_data[f]}

\* C24: with all other inputs fixed and valid, optimal_sets is monotonically
\* non-decreasing in recovery_factor, in energy_balance_factor and in
\* training_status.
C24_OptimalSetsMonotone ==
  pc = "calculated" =>
    \A field \in {"recovery_factor", "energy_balance_factor",
                  "training_status"} :
      \A other \in RaisedIn(field) :
        calculate_optimal_sets(other) >= optimal_sets

\* a computed optimal_sets that a larger recovery_factor, a larger
\* energy_balance_factor and a larger training_status each raise strictly,
\* for an input past the age of 50
C24_Witness ==
  /\ pc = "calculated"
  /\ input_data.age > 50
  /\ \A field \in {"recovery_factor", "energy_balance_factor",
                   "training_status"} :
       \E other \in RaisedIn(field) : calculate_optimal_sets(other) > optimal_sets

(***************************************************************************)
(* The validator run twice on the same plan and target range               *)
(***************************************************************************)
\* the plan with every day twice
Doubled(data) ==
  IF "workout_days" \notin DOMAIN data THEN data
  ELSE [data EXCEPT !.workout_days = @ \o @]

\* faulty variant of RerunValidator: weekly_volumes is kept between the calls
\* instead of being rebuilt, so the second run adds to the volumes of the
\* first
RerunValidator_accumulates ==
  /\ pc = "validated"
  /\ result' = validate_volume_targets(Doubled(workout_data), target_range)
  /\ feedback' = result'[2]
  /\ pc' = "revalidated"
  /\ UNCHANGED <<input_data, optimal_sets, target_range, base_prompt, attempt,
                 prompt, bedrock_attempt, workout_data, outcome, error,
                 converse_calls, response>>

\* a second call of validate_volume_targets with the same arguments:
\* weekly_volumes and the three lists are locals built anew, and the
\* arguments are only read
RerunValidator ==
  /\ pc = "validated"
  /\ result' = validate_volume_targets(workout_data, target_range)
  /\ feedback' = result'[2]
  /\ pc' = "revalidated"
  /\ UNCHANGED <<input_data, optimal_sets, target_range, base_prompt, attempt,
                 prompt, bedrock_attempt, workout_data, outcome, error,
                 converse_calls, response>>

RevalidatorNext ==
  \/ RunValidator /\ UNCHANGED Outside
  \/ RerunValidator /\ UNCHANGED Outside

RevalidatorSpec == ValidatorInit /\ [][RevalidatorNext]_vars

IndexedMuscles(data) ==
  UNION {IF Get(ExercisesOf(DaysOf(data)[p[1]])[p[2]], "exercise_name",
                NoneValue) \in DOMAIN EXERCISE_DATABASE
         THEN DOMAIN EXERCISE_DATABASE[
                ExercisesOf(DaysOf(data)[p[1]])[p[2]].exercise_name].activation
         ELSE {} : p \in Positions(data)}

\* 12 muscle groups, no name twice; every exercise is Compound or Isolation,
\* names only these muscles and has coefficients in (0, 1] (1..4 quarters)
CatalogWellFormed ==
  /\ Len(MUSCLE_GROUPS) = 12
  /\ Cardinality(MuscleSet) = 12
  /\ \A name \in DOMAIN EXERCISE_DATABASE :
       /\ DOMAIN EXERCISE_DATABASE[name] = {"type", "activation"}
       /\ EXERCISE_DATABASE[name].type \in {"Compound", "Isolation"}
       /\ DOMAIN EXERCISE_DATABASE[name].activation \subseteq MuscleSet
       /\ DOMAIN EXERCISE_DATABASE[name].activation # {}
       /\ \A muscle \in DOMAIN EXERCISE_DATABASE[name].activation :
            EXERCISE_DATABASE[name].activation[muscle] \in 1..4

EmptyAnswerStep ==
  pc = "converse" /\ response' = "json" /\ workout_data' = EmptyObject

\* C27: a generator response that parses as JSON but is empty ({}) ends the
\* request in Failed at once, on whatever attempt it occurs: no directive or
\* remediation is appended, the attempt counter does not move and no further
\* call is made.
C27_EmptyAnswerFailsAtOnce ==
  [][EmptyAnswerStep =>
       /\ pc' = "done"
       /\ outcome' = "Failed"
       /\ error' = "Failed to generate workout plan"
       /\ base_prompt' = base_prompt
       /\ prompt' = prompt
       /\ attempt' = attempt
       /\ bedrock_attempt' = bedrock_attempt]_vars

\* the empty object arrived on the third attempt, after two rejections and
\* an unparseable answer, with two attempts unused
C27_Witness ==
  /\ pc = "done"
  /\ response = "json" /\ workout_data = EmptyObject
  /\ outcome = "Failed" /\ error = "Failed to generate workout plan"
  /\ attempt = 2 /\ bedrock_attempt = 1
  /\ Len(base_prompt) = 3

\* realized weekly volume of a muscle in the returned plan, in quarter sets
ReturnedVolume(muscle) ==
  WeeklyVolumes([workout_days |-> result.workout_days])[muscle]

\* C28: whenever the loop ends in Accepted, every one of the 12 muscle groups
\* of the returned plan has realized weekly volume within
\* [target.min * 0.70, target.max * 1.30]; in particular no muscle has zero
\* volume when target.min > 0.
\* (volume in quarters, target in tenths: both sides scaled by 4000)
C28_AcceptedWithinTolerance ==
  outcome = "Accepted" =>
    \A muscle \in MuscleSet :
      /\ ReturnedVolume(muscle) * 1000 >= target_range.min * 70 * 4
      /\ ReturnedVolume(muscle) * 1000 <= target_range.max * 130 * 4
      /\ target_range.min > 0 => ReturnedVolume(muscle) > 0

\* a plan accepted on a later attempt with muscles outside the target range,
\* inside the tolerance band
C28_Witness ==
  /\ outcome = "Accepted"
  /\ attempt > 0
  /\ target_range.min > 0
  /\ \E muscle \in MuscleSet :
       \/ ReturnedVolume(muscle) * 10 < target_range.min * 4
       \/ ReturnedVolume(muscle) * 10 > target_range.max * 4

\* C29: the two volume computations agree: for the candidate of every
\* returned plan, the per-muscle volumes validate_volume_targets judged are,
\* before rounding, the volumes validate_and_calculate_volumes reports in the
\* returned weekly_volume_summary, and the verdict kept is the one those
\* volumes give.
C29_ValidatorJudgesReportedVolumes ==
  outcome \in Returned =>
    /\ ValidatorVolumes(workout_data) = WeeklyVolumes(workout_data)
    /\ \A i \in DOMAIN result.weekly_volume_summary :
         result.weekly_volume_summary[i].weekly_sets
           = Round1(ValidatorVolumes(workout_data)[
                      result.weekly_volume_summary[i].muscle_group])
    /\ feedback = validate_volume_targets(workout_data, target_range)[2]

\* a returned plan whose candidate has days without frequency_per_week or
\* exercises without sets, and whose summary is not all zero
C29_Witness ==
  /\ outcome \in Returned
  /\ \E d \in DOMAIN workout_data.workout_days :
       \/ "frequency_per_week" \notin DOMAIN workout_data.workout_days[d]
       \/ \E e \in DOMAIN workout_data.workout_days[d].exercises :
            "sets" \notin DOMAIN workout_data.workout_days[d].exercises[e]
  /\ \E i \in DOMAIN result.weekly_volume_summary :
       result.weekly_volume_summary[i].weekly_sets > 0
  /\ \E muscle \in MuscleSet : ValidatorVolumes(workout_data)[muscle] > 0

\* C30: the sanitizer preserves the day structure: the returned workout_days
\* has as many days as the candidate, in the candidate's order (name and
\* frequency of each day, "Workout Day" and 1 where the candidate gave none);
\* a day whose exercises are all unknown is returned with an empty exercise
\* list; the retained exercises of a day are the candidate's catalogued ones in
\* their order; and each carries the catalog's activation map, not the
\* generator's.
C30_SanitizerKeepsDayStructure ==
  outcome \in Returned =>
    /\ Len(result.workout_days) = Len(workout_data.workout_days)
    /\ \A i \in DOMAIN workout_data.workout_days :
         /\ result.workout_days[i].day_name
              = Get(workout_data.workout_days[i], "day_name", "Workout Day")
         /\ result.workout_days[i].frequency_per_week
              = Get(workout_data.workout_days[i], "frequency_per_week", 1)
         /\ Len(ReturnedExercises(i)) = Len(KnownExercises(i))
         /\ KnownExercises(i) = <<>> => ReturnedExercises(i) = <<>>
         /\ \A k \in DOMAIN ReturnedExercises(i) :
              /\ ReturnedExercises(i)[k].exercise_name
                   = KnownExercises(i)[k].exercise_name
              /\ ReturnedExercises(i)[k].muscle_activation
                   = EXERCISE_DATABASE[
                       KnownExercises(i)[k].exercise_name].activation

\* a returned plan of two days: the second had only an unknown exercise and
\* is returned empty under the default name, the first kept its catalogued
\* exercises, one of which came with an activation map of the generator's
C30_Witness ==
  /\ outcome \in Returned
  /\ Len(result.workout_days) = 2
  /\ CandidateExercises(2) # <<>> /\ ReturnedExercises(2) = <<>>
  /\ result.workout_days[2].day_name = "Workout Day"
  /\ Len(ReturnedExercises(1)) < Len(CandidateExercises(1))
  /\ \E k \in DOMAIN KnownExercises(1) :
       /\ "muscle_activation" \in DOMAIN KnownExercises(1)[k]
       /\ KnownExercises(1)[k].muscle_activation
            # ReturnedExercises(1)[k].muscle_activation

====
